---- MODULE Spec2Model ----
(***************************************************************************)
(* Verification model of the clarification dialogue                        *)
(* (conversation_manager.py), the interactive loop around it and the       *)
(* quality assessor (orchestrator.py), the delegation pipeline             *)
(* (delegation_coordinator.py), the agent call (agents/base_agent.py) and  *)
(* the extraction of JSON from agent responses.                            *)
(*                                                                         *)
(* Strings are modelled by the attributes the code inspects: the length of *)
(* the stripped text (body), the amount of surrounding whitespace (pad),   *)
(* whether the text lower-cases to one of none / n/a / unknown (filler)    *)
(* and whether it contains a disengagement phrase (pattern).               *)
(*                                                                         *)
(* Scores are exact rationals [num, den] standing for num / (100 * den).   *)
(***************************************************************************)
EXTENDS Integers, Sequences, FiniteSets, TLC

\* ------------------------------------------------------------------ bounds
\* largest max_clarification_rounds handed to the constructor
MaxRoundsArg == 3
\* largest max_critique_iterations handed to the constructor
MaxCritiqueArg == 2
\* longest priority_questions / clarification_questions list an agent returns
MaxQuestionList == 4
\* cap on _analyze_and_clarify calls explored in one dialogue
MaxAnalyzeCalls == 6
\* largest number of members in a JSON object the dispatcher returns
MaxMembers == 2
\* longest text an agent returns, in characters
MaxDraftLen == 4000
\* largest number of entries in the context handed to execute_async
MaxContextKeys == 2
\* calls of _assess_document_quality explored in a row
MaxAssessCalls == 2
\* word count of the longest document assessed
MaxWords == 1200

\* --------------------------------------------------------------- constants
DefaultMaxRounds == 3
DefaultMaxEmptyResponses == 2
DefaultMaxCritiqueIterations == 2
QuestionBatchLimit == 3

\* ----------------------------------------------------------------- strings
Str(b, p, f, u) == [body |-> b, pad |-> p, filler |-> f, pattern |-> u]

S_EMPTY   == Str(0, 0, FALSE, FALSE)    \* ""
S_BLANK   == Str(0, 2, FALSE, FALSE)    \* "  "
S_OK      == Str(2, 0, FALSE, FALSE)    \* "ok"
S_IDK     == Str(3, 0, FALSE, TRUE)     \* "idk"
S_YES     == Str(3, 0, FALSE, FALSE)    \* "Yes"
S_NONE    == Str(4, 0, TRUE, TRUE)      \* "none"
S_MED     == Str(10, 0, FALSE, FALSE)   \* ten characters of text
S_DETAIL  == Str(30, 0, FALSE, FALSE)   \* thirty characters of text
S_LONG    == Str(60, 0, FALSE, FALSE)   \* sixty characters of text

\* len(s)
Len_(s) == s.body + s.pad
\* len(s.strip())
StripLen(s) == s.body
\* bool(s)
Truthy(s) == Len_(s) > 0
\* s.lower() in ["none", "n/a", "unknown"]   (no strip before the test)
LowerIsFiller(s) == s.filler /\ s.pad = 0

\* --------------------------------------------------------------- rationals
Rat(n, d) == [num |-> n, den |-> d]
RatLeq(a, b) == a.num * b.den <= b.num * a.den
RatLess(a, b) == a.num * b.den < b.num * a.den
\* the value is >= h / 100
AtLeastHundredths(a, h) == a.num >= h * a.den
Max(a, b) == IF a >= b THEN a ELSE b
Min(a, b) == IF a <= b THEN a ELSE b
\* max(0.0, min(1.0, x))
Clamp01(a) == Rat(Max(0, Min(100 * a.den, a.num)), a.den)
InUnitInterval(a) == a.den > 0 /\ 0 <= a.num /\ a.num <= 100 * a.den

\* ------------------------------------------------------ ConversationContext
\* gathered_info with no entries
NoInfo == [k \in {} |-> S_EMPTY]

\* the run environments explored: what was passed on the command line and
\* what the request text and the code directory contain
Environments ==
  { [code_directory |-> FALSE, dir_exists |-> FALSE, technologies |-> {},
     input_files |-> FALSE, typed_files |-> FALSE,
     domain |-> "", doc_type |-> ""],
    [code_directory |-> TRUE, dir_exists |-> TRUE,
     technologies |-> {"Python", "Docker"},
     input_files |-> TRUE, typed_files |-> TRUE,
     domain |-> "e-commerce", doc_type |-> "FRD"] }

\* constructor arguments explored for confidence_score
ConfidenceArgs == { Rat(0, 1), Rat(0 - 50, 1), Rat(150, 1) }

\* ConversationContext(...) followed by __post_init__
PostInit(env, conf, rounds, max_rounds, empties, max_empties, max_critique) ==
  [ user_request |-> "request",
    conversation_history |-> << >>,
    gathered_info |-> NoInfo,
    clarification_round |-> IF rounds < 0 THEN 0 ELSE rounds,
    max_clarification_rounds |->
        IF max_rounds < 1 THEN DefaultMaxRounds ELSE max_rounds,
    confidence_score |-> IF InUnitInterval(conf) THEN conf ELSE Clamp01(conf),
    code_directory |-> env.code_directory,
    input_files |-> env.input_files,
    last_questions |-> << >>,
    empty_response_count |-> IF empties < 0 THEN 0 ELSE empties,
    max_empty_responses |->
        IF max_empties < 1 THEN DefaultMaxEmptyResponses ELSE max_empties,
    critique_iterations |-> 0,
    max_critique_iterations |-> max_critique,
    enable_self_critique |-> TRUE ]

\* ----------------------------------------------------- _calculate_confidence
\* the test of line 357: value and str(value).strip() and
\* str(value).lower() not in ["none", "n/a", "unknown"]
Counted(v) == Truthy(v) /\ StripLen(v) > 0 /\ ~LowerIsFiller(v)

CountedKeys(info) == { k \in DOMAIN info : Counted(info[k]) }
MeaningfulKeys(info) == { k \in CountedKeys(info) : StripLen(info[k]) >= 5 }
DetailedKeys(info) == { k \in CountedKeys(info) : StripLen(info[k]) > 50 }

\* number of exchanges whose answer has more than 20 characters after strip
QualityExchanges(history) ==
  Cardinality({ i \in 1..Len(history) : StripLen(history[i].answer) > 20 })

\* min(quality_exchanges * 0.1, 0.25), in hundredths
ConversationBonus(c) ==
  IF c.conversation_history = << >> THEN 0
  ELSE Min(QualityExchanges(c.conversation_history) * 10, 25)

\* 0.2 * (round - 2) when round > 2 and gathered_info is empty, in hundredths
RoundPenalty(c) ==
  IF c.clarification_round > 2 /\ DOMAIN c.gathered_info = {}
  THEN 20 * (c.clarification_round - 2) ELSE 0

\* empty_response_count * 0.15, in hundredths
SpamPenalty(c) == c.empty_response_count * 15

\* (score / max(total_possible, 1.0)) * 0.7 + bonus - penalties, unclamped
RawConfidence(c) ==
  LET total == Cardinality(CountedKeys(c.gathered_info))
      den == Max(total, 1)
      \* 0.7 * score, in hundredths: 1.0 per meaningful value, 0.3 extra
      \* per detailed value
      weighted == 70 * Cardinality(MeaningfulKeys(c.gathered_info))
                  + 21 * Cardinality(DetailedKeys(c.gathered_info))
      info == IF total > 0 THEN weighted ELSE 0
  IN Rat(info + den * (ConversationBonus(c) - RoundPenalty(c) - SpamPenalty(c)),
         den)

\* the score without the final max(0.0, min(1.0, ...))
CalculateConfidence_Unclamped(c) == RawConfidence(c)

CalculateConfidence(c) == Clamp01(RawConfidence(c))

\* ------------------------------------------------------------ JSON texts
\* An agent response is a sequence of tokens: the brackets and the comma of
\* JSON, "nc_true" / "nc_false" for the member "needs_clarification": true /
\* false, "key" for any other member name with its colon, "val" for a
\* string, number or literal, "txt" for text that is not JSON, and "deep"
\* for a run of opening brackets longer than the interpreter's recursion
\* limit.

RECURSIVE ParseValue(_, _), ParseMembers(_, _), ParseElements(_, _)

\* Each Parse operator takes the text and the position to read from; it
\* returns the position after what it read, or 0 when the text is malformed.
ParseMember(t, i) ==
  IF i > Len(t) THEN 0
  ELSE IF t[i] \in {"nc_true", "nc_false"} THEN i + 1
  ELSE IF t[i] = "key" THEN ParseValue(t, i + 1)
  ELSE 0

ParseMembers(t, i) ==
  LET m == ParseMember(t, i)
  IN IF m = 0 \/ m > Len(t) THEN 0
     ELSE IF t[m] = "," THEN ParseMembers(t, m + 1)
     ELSE IF t[m] = "}" THEN m + 1
     ELSE 0

ParseElements(t, i) ==
  LET m == ParseValue(t, i)
  IN IF m = 0 \/ m > Len(t) THEN 0
     ELSE IF t[m] = "," THEN ParseElements(t, m + 1)
     ELSE IF t[m] = "]" THEN m + 1
     ELSE 0

ParseValue(t, i) ==
  IF i > Len(t) THEN 0
  ELSE IF t[i] = "val" THEN i + 1
  ELSE IF t[i] = "{"
       THEN IF i + 1 <= Len(t) /\ t[i + 1] = "}" THEN i + 2
            ELSE ParseMembers(t, i + 1)
  ELSE IF t[i] = "["
       THEN IF i + 1 <= Len(t) /\ t[i + 1] = "]" THEN i + 2
            ELSE ParseElements(t, i + 1)
  ELSE 0

\* json.loads(t): "object", "nonobject", "error" for JSONDecodeError, or
\* "recursion" for the RecursionError of the decoder
JsonLoads(t) ==
  IF t # << >> /\ t[1] = "deep" THEN "recursion"
  ELSE IF t # << >> /\ ParseValue(t, 1) = Len(t) + 1
  THEN IF t[1] = "{" THEN "object" ELSE "nonobject"
  ELSE "error"

\* nesting depth before position i
RECURSIVE Depth(_, _)
Depth(t, i) ==
  IF i <= 1 THEN 0
  ELSE Depth(t, i - 1)
       + (IF t[i - 1] \in {"{", "["} THEN 1 ELSE 0)
       - (IF t[i - 1] \in {"}", "]"} THEN 1 ELSE 0)

\* the value of the member needs_clarification of the object that
\* json.loads(t) returns: "true", "false" or "absent" (the last one wins)
NeedsClarificationField(t) ==
  LET at == { i \in 1..Len(t) :
                t[i] \in {"nc_true", "nc_false"} /\ Depth(t, i) = 1 }
  IN IF at = {} THEN "absent"
     ELSE LET last == CHOOSE i \in at : \A j \in at : j <= i
          IN IF t[last] = "nc_true" THEN "true" ELSE "false"

\* re.search(r'\{[^}]+\}', t, re.DOTALL): the leftmost "{" that is followed
\* by at least one token other than "}" and later by a "}"; the match ends
\* at the first "}" after it.  << >> stands for no match.
RegexBraceMatch(t) ==
  LET starts == { i \in 1..Len(t) :
                    /\ t[i] = "{"
                    /\ i + 1 <= Len(t) /\ t[i + 1] # "}"
                    /\ \E j \in (i + 2)..Len(t) : t[j] = "}" }
  IN IF starts = {} THEN << >>
     ELSE LET i == CHOOSE x \in starts : \A y \in starts : x <= y
              j == CHOOSE x \in (i + 2)..Len(t) :
                     /\ t[x] = "}"
                     /\ \A y \in (i + 2)..(x - 1) : t[y] # "}"
          IN SubSeq(t, i, j)

\* ----------------------------------------------------- JSON values
\* What json.loads returns.  An object is known by the value of its member
\* needs_clarification (nc) and by the value of its other member, if any
\* (items); an array by its elements (items).  Later members of the same
\* name replace earlier ones, as in a Python dict.
ScalarValue == [type |-> "scalar", nc |-> "absent", items |-> << >>]
ArrayValue(items) == [type |-> "array", nc |-> "absent", items |-> items]
ObjectValue(nc, items) == [type |-> "object", nc |-> nc, items |-> items]
EmptyObject == ObjectValue("absent", << >>)
NoValue == [type |-> "none", nc |-> "absent", items |-> << >>]

ReadFailed == [next |-> 0, value |-> NoValue]

RECURSIVE ReadValue(_, _), ReadMembers(_, _, _), ReadElements(_, _, _)

\* Each Read operator takes the text and the position to read from; it
\* returns the value read and the position after it, or ReadFailed.
ReadMember(t, i, acc) ==
  IF i > Len(t) THEN ReadFailed
  ELSE IF t[i] = "nc_true"
       THEN [next |-> i + 1, value |-> [acc EXCEPT !.nc = "true"]]
  ELSE IF t[i] = "nc_false"
       THEN [next |-> i + 1, value |-> [acc EXCEPT !.nc = "false"]]
  ELSE IF t[i] = "key"
       THEN LET v == ReadValue(t, i + 1)
            IN IF v.next = 0 THEN ReadFailed
               ELSE [next |-> v.next,
                     value |-> [acc EXCEPT !.items = << v.value >>]]
  ELSE ReadFailed

ReadMembers(t, i, acc) ==
  LET m == ReadMember(t, i, acc)
  IN IF m.next = 0 \/ m.next > Len(t) THEN ReadFailed
     ELSE IF t[m.next] = "," THEN ReadMembers(t, m.next + 1, m.value)
     ELSE IF t[m.next] = "}" THEN [next |-> m.next + 1, value |-> m.value]
     ELSE ReadFailed

ReadElements(t, i, acc) ==
  LET e == ReadValue(t, i)
  IN IF e.next = 0 \/ e.next > Len(t) THEN ReadFailed
     ELSE IF t[e.next] = ","
          THEN ReadElements(t, e.next + 1, Append(acc, e.value))
     ELSE IF t[e.next] = "]"
          THEN [next |-> e.next + 1,
                value |-> ArrayValue(Append(acc, e.value))]
     ELSE ReadFailed

ReadValue(t, i) ==
  IF i > Len(t) THEN ReadFailed
  ELSE IF t[i] = "val" THEN [next |-> i + 1, value |-> ScalarValue]
  ELSE IF t[i] = "{"
       THEN IF i + 1 <= Len(t) /\ t[i + 1] = "}"
            THEN [next |-> i + 2, value |-> EmptyObject]
            ELSE ReadMembers(t, i + 1, EmptyObject)
  ELSE IF t[i] = "["
       THEN IF i + 1 <= Len(t) /\ t[i + 1] = "]"
            THEN [next |-> i + 2, value |-> ArrayValue(<< >>)]
            ELSE ReadElements(t, i + 1, << >>)
  ELSE ReadFailed

\* json.loads(t) with its value; ok is FALSE for JSONDecodeError
JsonLoadsValue(t) ==
  LET r == ReadValue(t, 1)
  IN IF t # << >> /\ r.next = Len(t) + 1
     THEN [ok |-> TRUE, value |-> r.value]
     ELSE [ok |-> FALSE, value |-> NoValue]

\* ------------------------------------------- _extract_json_from_response
\* Further tokens of a response: "fence" for a code fence of three
\* backquotes (with or without the word json), "pq" for text of the form
\* priority_questions: ['... ?', ...] and "an" for text of the form
\* analysis: '... ', neither of which is JSON.  "key" and "txt" hold none
\* of the names needs_clarification, priority_questions, analysis,
\* document_type and workflow.

\* what the function hands back: the value, the strategy that produced it
\* (0 for the guard, 5 for the final return {}) and, for strategy 4, the
\* names of the fields it extracted
Extracted(strategy, value, fields) ==
  [strategy |-> strategy, value |-> value, fields |-> fields]

\* Strategy 1 with the brace regex of coordinate applied first
DirectParse_BraceRegex(t) ==
  JsonLoadsValue(IF RegexBraceMatch(t) # << >> THEN RegexBraceMatch(t) ELSE t)

\* Strategy 1, lines 719-722: json.loads(response)
DirectParse(t) == JsonLoadsValue(t)

\* Strategy 2, lines 725-731, the search for a fenced block: the
\* leftmost fence directly followed by "{", with the last "}" before
\* the next fence directly followed by that fence; << >> for no match
FencedBlock(t) ==
  LET starts == { i \in 1..Len(t) :
                    /\ t[i] = "fence"
                    /\ i + 1 <= Len(t) /\ t[i + 1] = "{"
                    /\ \E j \in (i + 3)..Len(t) :
                         /\ t[j] = "}"
                         /\ j + 1 <= Len(t) /\ t[j + 1] = "fence"
                         /\ \A k \in (i + 1)..j : t[k] # "fence" }
  IN IF starts = {} THEN << >>
     ELSE LET i == CHOOSE x \in starts : \A y \in starts : x <= y
              j == CHOOSE x \in (i + 3)..Len(t) :
                     /\ t[x] = "}"
                     /\ x + 1 <= Len(t) /\ t[x + 1] = "fence"
                     /\ \A k \in (i + 1)..x : t[k] # "fence"
          IN SubSeq(t, i + 1, j)

\* braces open before position i and not closed, counted from position s
RECURSIVE BraceDepth(_, _, _)
BraceDepth(t, s, i) ==
  IF i < s THEN 0
  ELSE BraceDepth(t, s, i - 1)
       + (IF t[i] = "{" THEN 1 ELSE 0)
       - (IF t[i] = "}" THEN 1 ELSE 0)

\* Strategy 3, lines 734-747: from the first "{" to the "}" that closes it;
\* << >> when there is no "{" or it is never closed
BalancedBlock(t) ==
  LET opens == { i \in 1..Len(t) : t[i] = "{" }
  IN IF opens = {} THEN << >>
     ELSE LET s == CHOOSE x \in opens : \A y \in opens : x <= y
              closes == { i \in s..Len(t) :
                            t[i] = "}" /\ BraceDepth(t, s, i) = 0 }
          IN IF closes = {} THEN << >>
             ELSE SubSeq(t, s, CHOOSE x \in closes : \A y \in closes : x <= y)

\* Strategy 4 of conversation_manager.py, lines 750-770
KeyValuePairs(t) ==
  (IF \E i \in 1..Len(t) : t[i] = "pq" THEN { "priority_questions" } ELSE {})
  \cup (IF \E i \in 1..Len(t) : t[i] = "an" THEN { "analysis" } ELSE {})

\* Strategy 4 of orchestrator.py, lines 300-320
CommonFields(t) ==
  IF \E i \in 1..Len(t) : t[i] \in { "nc_true", "nc_false" }
  THEN { "needs_clarification" } ELSE {}

StrategyFour(version, t) ==
  IF version = "conversation" THEN KeyValuePairs(t) ELSE CommonFields(t)

\* _extract_json_from_response(response), lines 713-772 of
\* conversation_manager.py and lines 263-322 of orchestrator.py
ExtractJsonFromResponse(version, response) ==
  LET t == response.text
  IN IF ~response.is_str \/ t = << >>
     THEN Extracted(0, EmptyObject, {})
     ELSE IF DirectParse(t).ok
     THEN Extracted(1, DirectParse(t).value, {})
     ELSE IF FencedBlock(t) # << >> /\ JsonLoadsValue(FencedBlock(t)).ok
     THEN Extracted(2, JsonLoadsValue(FencedBlock(t)).value, {})
     ELSE IF BalancedBlock(t) # << >> /\ JsonLoadsValue(BalancedBlock(t)).ok
     THEN Extracted(3, JsonLoadsValue(BalancedBlock(t)).value, {})
     ELSE IF StrategyFour(version, t) # {}
     THEN Extracted(4, EmptyObject, StrategyFour(version, t))
     ELSE Extracted(5, EmptyObject, {})

\* ------------------------------------------------------------------- state
VARIABLES
  context,           \* the ConversationContext of the dialogue
  pc,                \* where the dialogue stands
  confidence,        \* value returned by the last _calculate_confidence call
  analyze_calls,     \* calls of _analyze_and_clarify so far
  generation_calls,  \* calls of generate_documentation_async so far
  result,            \* last result handed back to the caller
  env,               \* the run environment
  only_idk,          \* the user has answered nothing but "idk" so far
  generated,         \* local variable result of _proceed_with_generation
  last_step          \* the operation that ran last, its inputs and the
                     \* agents it called

convVars == << context, pc, confidence, analyze_calls, generation_calls,
               result, env, only_idk, generated, last_step >>

VARIABLES
  cpc,               \* where the run of coordinate stands
  has_code,          \* context has a code_directory or input_files
  dispatch_result,   \* the dispatcher's response text
  dispatch_info,     \* what coordinate parsed from it
  invoked,           \* the agents invoked so far, in order
  pending,           \* Phase 2 tasks that have not completed
  task_result,       \* what each completed Phase 2 task returned
  completed,         \* the Phase 2 tasks in the order they completed
  requirements,      \* local variable requirements
  code_analysis,     \* local variable code_analysis
  writer_prompt,     \* what the writer was given
  document,          \* the writer's draft
  security_prompt,   \* what the security reviewer was given
  security_result,   \* the security reviewer's findings
  editor_prompt,     \* what the editor was given
  final_document,    \* the editor's output
  file_written,      \* the output file was written
  coord_result       \* status of the result coordinate returned

coordVars == << cpc, has_code, dispatch_result, dispatch_info, invoked,
                pending, task_result, completed, requirements, code_analysis,
                writer_prompt, document, security_prompt, security_result,
                editor_prompt, final_document, file_written, coord_result >>

VARIABLES
  apc,               \* where the call of execute_async stands
  agent,             \* the agent: its name, the SDK flag, its registration
  call,              \* the arguments user_message and context
  full_message,      \* the message handed to agent.run
  run_outcome,       \* how agent.run ended
  agent_out          \* how execute_async ended

agentVars == << apc, agent, call, full_message, run_outcome, agent_out >>

VARIABLES
  ppc,               \* where the call of _extract_json_from_response stands
  version,           \* which of the two copies of the function is called
  source,            \* the mapping the response was serialized from, if any
  response,          \* the argument response
  parsed             \* what the call returned

parseVars == << ppc, version, source, response, parsed >>

VARIABLES
  qcalls,            \* calls of _assess_document_quality so far
  qcall,             \* the arguments of the last call
  assessment,        \* what the last call returned
  previous           \* arguments and result of the call before it

assessVars == << qcalls, qcall, assessment, previous >>

VARIABLES
  gpc,               \* where the call of generate_documentation_async stands
  gen_result         \* the result it returned to _proceed_with_generation

genVars == << gpc, gen_result >>

VARIABLES
  workflow_log       \* DocumentationOrchestrator.workflow_log

logVars == << workflow_log >>

\* what the actions of one operation leave alone
outsideConv ==
  << coordVars, agentVars, parseVars, assessVars, genVars, logVars >>
outsideCoord ==
  << convVars, agentVars, parseVars, assessVars, genVars, logVars >>
outsideAgent ==
  << convVars, coordVars, parseVars, assessVars, genVars, logVars >>
outsideParse ==
  << convVars, coordVars, agentVars, assessVars, genVars, logVars >>
outsideAssess ==
  << convVars, coordVars, agentVars, parseVars, genVars, logVars >>
outsideGen ==
  << convVars, coordVars, agentVars, parseVars, assessVars, logVars >>
outsideLog ==
  << convVars, coordVars, agentVars, parseVars, assessVars, genVars >>

NoResult == [status |-> "none", questions |-> << >>, round |-> 0,
             flagged |-> FALSE, quality |-> "absent"]

\* one operation of the dialogue: the answer it was given, what the parser
\* made of the response of the agent it asked (extraction), and the agents
\* it called
Step(op, answer, extraction, agents) ==
  [op |-> op, answer |-> answer, extraction |-> extraction, agents |-> agents]

\* an operation that takes no answer
Ran(op, agents) == Step(op, S_EMPTY, "unasked", agents)

NoStep == Ran("none", {})

\* ConversationContext(user_request, code_directory, input_files)
DefaultContext(e) ==
  PostInit(e, Rat(0, 1), 0, DefaultMaxRounds, 0, DefaultMaxEmptyResponses,
           DefaultMaxCritiqueIterations)

\* context.update_info(key, value)
UpdateInfo(info, key, value) ==
  [k \in DOMAIN info \cup {key} |-> IF k = key THEN value ELSE info[k]]

\* ----------------------------------------------------- _auto_detect_context
NameLen(name) ==
  CASE name = "Python" -> 6
    [] name = "Docker" -> 6
    [] name = "FastAPI" -> 7
    [] name = "SQL Database" -> 12
    [] name = "API Documentation" -> 17
    [] name = "Cloud Deployment Guide" -> 22
    [] name = "Functional Requirements Document (FRD)" -> 38
    [] name = "Data Architecture Document" -> 26
    [] name = "e-commerce" -> 10
    [] name = "api" -> 3
    [] name = "FRD" -> 3
    [] OTHER -> 8

RECURSIVE SumNameLen(_)
SumNameLen(names) ==
  IF names = {} THEN 0
  ELSE LET n == CHOOSE x \in names : TRUE
       IN NameLen(n) + 2 + SumNameLen(names \ {n})

\* str() of a list of names: brackets, quotes and ", " separators
ListText(names) ==
  Str(2 + SumNameLen(names) + 2 * (Cardinality(names) - 1), 0, FALSE, FALSE)

NameText(name) == Str(NameLen(name), 0, FALSE, FALSE)

SuggestDocTypesFromTech(technologies) ==
  (IF technologies \cap {"FastAPI"} # {} THEN {"API Documentation"} ELSE {})
  \cup (IF technologies \cap {"Docker"} # {}
        THEN {"Cloud Deployment Guide"} ELSE {})
  \cup (IF technologies # {}
        THEN {"Functional Requirements Document (FRD)"} ELSE {})
  \cup (IF technologies \cap {"SQL Database"} # {}
        THEN {"Data Architecture Document"} ELSE {})

AnalyzeFileTypes(e) == IF e.typed_files THEN {"Python"} ELSE {}

DetectCode(info, e) ==
  IF e.code_directory /\ e.dir_exists
  THEN LET i1 == UpdateInfo(info, "code_provided", S_YES)
           i2 == IF e.technologies # {}
                 THEN UpdateInfo(i1, "detected_technologies",
                                 ListText(e.technologies))
                 ELSE i1
       IN IF e.technologies # {}
             /\ SuggestDocTypesFromTech(e.technologies) # {}
          THEN UpdateInfo(i2, "suggested_document_types",
                          ListText(SuggestDocTypesFromTech(e.technologies)))
          ELSE i2
  ELSE info

DetectFiles(info, e) ==
  IF e.input_files
  THEN LET i1 == UpdateInfo(info, "files_provided", S_YES)
       IN IF AnalyzeFileTypes(e) # {}
          THEN UpdateInfo(i1, "file_types", ListText(AnalyzeFileTypes(e)))
          ELSE i1
  ELSE info

DetectRequest(info, e) ==
  LET i1 == IF e.domain # ""
            THEN UpdateInfo(info, "detected_domain", NameText(e.domain))
            ELSE info
  IN IF e.doc_type # ""
     THEN UpdateInfo(i1, "mentioned_doc_type", NameText(e.doc_type))
     ELSE i1

AutoDetectContext(c, e) ==
  [c EXCEPT !.gathered_info = DetectRequest(DetectFiles(DetectCode(@, e), e), e)]

\* ------------------------------------------------------ agent responses
\* What _extract_json_from_response makes of an agent response: json is
\* "object" (a JSON object was found), "nonobject" (the text is valid JSON
\* but not an object: strategy 1 returns it as it is) or "none" (no strategy
\* succeeds and the result is the empty mapping).
QuestionNames == << "q1", "q2", "q3", "q4", "q5", "q6" >>

\* responses of the dispatcher to the question prompt: pq tells whether
\* priority_questions is a list, is missing or is a value that cannot be
\* sliced (a number, an object, null)
QuestionResponses ==
  { [json |-> "object", pq |-> "list", n |-> n] : n \in {MaxQuestionList} }
  \cup { [json |-> "object", pq |-> "absent", n |-> 0],
         [json |-> "object", pq |-> "scalar", n |-> 0],
         [json |-> "nonobject", pq |-> "absent", n |-> 0],
         [json |-> "none", pq |-> "absent", n |-> 0] }

\* keys and values the analyst extracts from an answer
ExtractKeys == { "application_type", "key_features" }
ExtractValues == { S_EMPTY, S_BLANK, S_MED, S_LONG }

ExtractionResponses ==
  { [json |-> "object", fields |-> f] :
      f \in UNION { [ks -> ExtractValues] :
                      ks \in { {k} : k \in ExtractKeys } } }
  \cup { [json |-> "nonobject", fields |-> NoInfo],
         [json |-> "none", fields |-> NoInfo] }

\* answers the user gives
UserAnswers == { S_EMPTY, S_BLANK, S_OK, S_IDK, S_DETAIL }

\* texts the editor returns as a critique
CritiqueTexts == { S_EMPTY, S_LONG }

\* results generate_documentation_async hands back
GenerationResults ==
  { [status |-> "document", questions |-> << >>, round |-> 0,
     flagged |-> f, quality |-> q] :
      << f, q >> \in { << TRUE, "low" >>, << TRUE, "medium" >>,
                        << FALSE, "absent" >> } }

\* the first n elements of a sequence: seq[:n]
Prefix(seq, n) == SubSeq(seq, 1, Min(n, Len(seq)))

\* ------------------------------------------------------ _ask_basic_questions
\* the adaptive questions without the generic fallback of lines 511-516
BasicQuestions_NoFallback(c) ==
  LET keys == DOMAIN c.gathered_info
      a1 == IF "application_type" \notin keys
            THEN << "What type of application is this?" >> ELSE << >>
      a2 == IF "document_types" \notin keys /\ "document_type" \notin keys
            THEN Append(a1, "What documentation do you need?") ELSE a1
      a3 == IF "key_features" \notin keys /\ "features" \notin keys
            THEN Append(a2, "What are the main features?") ELSE a2
      a4 == IF "stakeholders" \notin keys /\ Len(a3) < 3
            THEN Append(a3, "Who are the primary users or stakeholders?")
            ELSE a3
  IN Prefix(a4, QuestionBatchLimit)

BasicQuestions(c) ==
  LET keys == DOMAIN c.gathered_info
      a1 == IF "application_type" \notin keys
            THEN << "What type of application is this?" >> ELSE << >>
      a2 == IF "document_types" \notin keys /\ "document_type" \notin keys
            THEN Append(a1, "What documentation do you need?") ELSE a1
      a3 == IF "key_features" \notin keys /\ "features" \notin keys
            THEN Append(a2, "What are the main features?") ELSE a2
      a4 == IF "stakeholders" \notin keys /\ Len(a3) < 3
            THEN Append(a3, "Who are the primary users or stakeholders?")
            ELSE a3
      a5 == IF "technical_stack" \notin keys /\ "tech_stack" \notin keys
               /\ Len(a4) < 3
            THEN IF c.code_directory \/ c.input_files
                 THEN Append(a4, "Any specific technical requirements?")
                 ELSE Append(a4, "What technologies does this use?")
            ELSE a4
      a6 == IF Len(a5) < 2
            THEN << "Can you provide more details?",
                    "What specific aspects should be covered?",
                    "Are there any particular requirements?" >>
            ELSE a5
  IN Prefix(a6, QuestionBatchLimit)

AskBasicQuestions(c) == [c EXCEPT !.last_questions = BasicQuestions(c)]

\* ------------------------------------------------ _ask_intelligent_questions
\* a variant that counts every batch as two rounds
AskIntelligentQuestions_TwoRounds(c, resp) ==
  LET c1 == [c EXCEPT !.clarification_round = @ + 2]
  IN IF resp.json = "nonobject" \/ resp.pq = "scalar"
     THEN AskBasicQuestions(c1)
     ELSE [c1 EXCEPT !.last_questions =
             IF resp.json = "object" /\ resp.pq = "list"
             THEN Prefix(SubSeq(QuestionNames, 1, resp.n), QuestionBatchLimit)
             ELSE << >>]

\* c is the context on entry, resp the dispatcher's response
AskIntelligentQuestions(c, resp) ==
  LET c1 == [c EXCEPT !.clarification_round = @ + 1]
  IN IF resp.json = "nonobject" \/ resp.pq = "scalar"
     THEN AskBasicQuestions(c1)
     ELSE [c1 EXCEPT !.last_questions =
             IF resp.json = "object" /\ resp.pq = "list"
             THEN Prefix(SubSeq(QuestionNames, 1, resp.n), QuestionBatchLimit)
             ELSE << >>]

\* ----------------------------------------------------- _analyze_and_clarify
HighConfidence(conf) == AtLeastHundredths(conf, 70)
\* the round cap tested with > in place of >=
MaxRoundsReached_Strict(c) ==
  c.clarification_round > c.max_clarification_rounds

MaxRoundsReached(c) == c.clarification_round >= c.max_clarification_rounds
\* the empty-response rule firing one answer late
TooManyEmptyResponses_Strict(c) ==
  c.empty_response_count > c.max_empty_responses
TooManyEmptyResponses(c) == c.empty_response_count >= c.max_empty_responses
\* the limited-progress rule firing only when nothing at all was gathered
LimitedProgress_NoFacts(c) ==
  c.clarification_round >= 2 /\ Cardinality(DOMAIN c.gathered_info) < 1

LimitedProgress(c) ==
  c.clarification_round >= 2 /\ Cardinality(DOMAIN c.gathered_info) < 2

\* the termination rules without the round cap
ShouldProceed_NoRoundCap(c, conf) ==
  \/ HighConfidence(conf)
  \/ TooManyEmptyResponses(c)
  \/ LimitedProgress(c)

ShouldProceed(c, conf) ==
  \/ HighConfidence(conf)
  \/ MaxRoundsReached(c)
  \/ TooManyEmptyResponses(c)
  \/ LimitedProgress(c)

NeedsClarification(c) ==
  [status |-> "needs_clarification", questions |-> c.last_questions,
   round |-> c.clarification_round, flagged |-> FALSE, quality |-> "absent"]

\* --------------------------------------------------- process_user_response
\* not response_clean or len(response_clean) < 3
IsShortAnswer(answer) == StripLen(answer) < 3
\* the disengagement test without its length condition
IsUnhelpfulAnswer_AnyLength(answer) == answer.pattern

\* a disengagement phrase in an answer of fewer than 20 characters
IsUnhelpfulAnswer(answer) == answer.pattern /\ StripLen(answer) < 20

\* _get_last_questions
GetLastQuestions(c) ==
  IF c.last_questions # << >> THEN c.last_questions
  ELSE IF c.conversation_history # << >>
       THEN c.conversation_history[Len(c.conversation_history)].question
       ELSE << >>

\* an add_exchange that keeps only the newest exchange
AddExchange_Replacing(c, question, answer) ==
  [c EXCEPT !.conversation_history =
     << [agent |-> "System", question |-> question, answer |-> answer] >>]

\* context.add_exchange(agent, question, answer)
AddExchange(c, question, answer) ==
  [c EXCEPT !.conversation_history =
     Append(@, [agent |-> "System", question |-> question, answer |-> answer])]

\* for key, value in info.items(): if value: update_info(key, value)
MergeExtracted(info, fields) ==
  [k \in DOMAIN info \cup { f \in DOMAIN fields : Truthy(fields[f]) } |->
     IF k \in DOMAIN fields /\ Truthy(fields[k]) THEN fields[k] ELSE info[k]]

\* the try/except of lines 596-603: a parsed value that is not a mapping
\* has no items() and the raw answer is stored instead
StoreExtraction(c, answer, extracted) ==
  IF extracted.json = "nonobject"
  THEN [c EXCEPT !.gathered_info = UpdateInfo(@, "latest_response", answer)]
  ELSE [c EXCEPT !.gathered_info = MergeExtracted(@, extracted.fields)]

\* the part of process_user_response that runs for an answer of 3 or more
\* characters, up to the call of _analyze_and_clarify
IngestAnswer(c, answer, extracted) ==
  LET c1 == [c EXCEPT !.empty_response_count =
               IF IsUnhelpfulAnswer(answer) THEN @ + 1 ELSE 0]
      c2 == AddExchange(c1, GetLastQuestions(c1), answer)
  IN StoreExtraction(c2, answer, extracted)

\* ------------------------------------------------------------------ actions
\* start_conversation: the context is created and the auto-detection runs
StartConversation ==
  /\ pc = "created"
  /\ context' = AutoDetectContext(context, env)
  /\ pc' = "analyze"
  /\ last_step' = Ran("start_conversation", {})
  /\ UNCHANGED << confidence, analyze_calls, generation_calls, result, env,
                  only_idk, generated >>
  /\ UNCHANGED outsideConv

\* generate_documentation_async, lines 143-160: the context is created with
\* the defaults and last_questions is taken from the dispatcher's
\* clarification_questions when that list is not empty
PrepopulateQuestions(c, n) ==
  IF n > 0 THEN [c EXCEPT !.last_questions = SubSeq(QuestionNames, 1, n)]
  ELSE c

AutoTriggerConversation ==
  /\ pc = "created"
  /\ context = DefaultContext(env)
  /\ \E n \in 0..MaxQuestionList : context' = PrepopulateQuestions(context, n)
  /\ pc' = "analyze"
  /\ last_step' = Ran("generate_documentation_async", {})
  /\ UNCHANGED << confidence, analyze_calls, generation_calls, result, env,
                  only_idk, generated >>
  /\ UNCHANGED outsideConv

\* a _calculate_confidence that also stores the score in the context
CalculateConfidenceCall_Storing ==
  /\ pc = "analyze"
  /\ analyze_calls < MaxAnalyzeCalls
  /\ confidence' = CalculateConfidence(context)
  /\ context' = [context EXCEPT
                   !.confidence_score = CalculateConfidence(context)]
  /\ analyze_calls' = analyze_calls + 1
  /\ pc' = "decide"
  /\ last_step' = Ran("_calculate_confidence", {})
  /\ UNCHANGED << generation_calls, result, env, only_idk, generated >>
  /\ UNCHANGED outsideConv

\* _analyze_and_clarify, line 304: the call of _calculate_confidence
CalculateConfidenceCall ==
  /\ pc = "analyze"
  /\ analyze_calls < MaxAnalyzeCalls
  /\ confidence' = CalculateConfidence(context)
  /\ analyze_calls' = analyze_calls + 1
  /\ pc' = "decide"
  /\ last_step' = Ran("_calculate_confidence", {})
  /\ UNCHANGED << context, generation_calls, result, env, only_idk,
                  generated >>
  /\ UNCHANGED outsideConv

\* _analyze_and_clarify, lines 305-336, with _ask_intelligent_questions
AnalyzeAndClarify ==
  /\ pc = "decide"
  /\ LET c1 == [context EXCEPT !.confidence_score = confidence]
     IN IF ShouldProceed(c1, confidence)
        THEN /\ context' = c1
             /\ pc' = "generate"
             /\ last_step' = Ran("_analyze_and_clarify", {})
             /\ UNCHANGED result
        ELSE \E resp \in QuestionResponses :
                /\ context' = AskIntelligentQuestions(c1, resp)
                /\ pc' = "waiting"
                /\ last_step' = Step("_ask_intelligent_questions", S_EMPTY,
                                     resp.json, {"dispatcher"})
                /\ result' = NeedsClarification(context')
  /\ UNCHANGED << confidence, analyze_calls, generation_calls, env, only_idk,
                  generated >>
  /\ UNCHANGED outsideConv

\* a short-answer branch that forgets the questions it re-asks
ProcessShortResponse_Forgetting ==
  /\ pc = "waiting"
  /\ \E answer \in UserAnswers :
       /\ IsShortAnswer(answer)
       /\ context' = [context EXCEPT !.empty_response_count = @ + 1,
                                     !.last_questions = << >>]
       /\ IF TooManyEmptyResponses(context')
          THEN pc' = "generate" /\ UNCHANGED result
          ELSE pc' = "waiting" /\ result' = NeedsClarification(context')
       /\ last_step' = Step("process_user_response", answer, "unasked", {})
  /\ UNCHANGED << confidence, analyze_calls, generation_calls, env,
                  generated >>
  /\ only_idk' = FALSE
  /\ UNCHANGED outsideConv

\* process_user_response with an answer of fewer than 3 characters
ProcessShortResponse ==
  /\ pc = "waiting"
  /\ \E answer \in UserAnswers :
       /\ IsShortAnswer(answer)
       /\ context' = [context EXCEPT !.empty_response_count = @ + 1]
       /\ IF TooManyEmptyResponses(context')
          THEN pc' = "generate" /\ UNCHANGED result
          ELSE pc' = "waiting" /\ result' = NeedsClarification(context')
       /\ last_step' = Step("process_user_response", answer, "unasked", {})
  /\ UNCHANGED << confidence, analyze_calls, generation_calls, env,
                  generated >>
  /\ only_idk' = FALSE
  /\ UNCHANGED outsideConv

\* process_user_response with a longer answer, up to _analyze_and_clarify
ProcessUserResponse ==
  /\ pc = "waiting"
  /\ \E answer \in UserAnswers, extracted \in ExtractionResponses :
       /\ ~IsShortAnswer(answer)
       /\ context' = IngestAnswer(context, answer, extracted)
       /\ only_idk' = (only_idk /\ answer = S_IDK)
       /\ last_step' = Step("process_user_response", answer, extracted.json,
                            {"analyst"})
  /\ pc' = "analyze"
  /\ UNCHANGED << confidence, analyze_calls, generation_calls, result, env,
                  generated >>
  /\ UNCHANGED outsideConv

\* the interactive loop, lines 170-175: 'proceed', 'continue' or 'skip'
ProceedCommand ==
  /\ pc = "waiting"
  /\ context' = [context EXCEPT
                   !.clarification_round = context.max_clarification_rounds]
  /\ pc' = "analyze"
  /\ last_step' = Ran("proceed", {})
  /\ UNCHANGED << confidence, analyze_calls, generation_calls, result, env,
                  generated >>
  /\ only_idk' = FALSE
  /\ UNCHANGED outsideConv

\* --------------------------------------------------- _proceed_with_generation
\* lines 640-642
CritiqueWanted(c, res) ==
  /\ c.enable_self_critique
  /\ res.flagged
  /\ c.critique_iterations < c.max_critique_iterations

\* lines 691-698: the recursive call is made when the regenerated document
\* is still low and iterations remain
RetryWanted(c, res) ==
  /\ res.quality = "low"
  /\ c.critique_iterations < c.max_critique_iterations

CritiqueKey(i) ==
  CASE i = 1 -> "critique_iteration_1"
    [] i = 2 -> "critique_iteration_2"
    [] i = 3 -> "critique_iteration_3"
    [] OTHER -> "critique_iteration_n"

\* lines 613-644: the first generation of a call and the test for a critique
Generate ==
  /\ pc = "generate"
  /\ generation_calls' = generation_calls + 1
  /\ last_step' = Ran("_proceed_with_generation", {"pipeline"})
  /\ \E res \in GenerationResults :
       /\ generated' = res
       /\ result' = res
       /\ IF CritiqueWanted(context, res)
          THEN /\ context' = [context EXCEPT !.critique_iterations = @ + 1]
               /\ pc' = "critique"
          ELSE /\ pc' = "done"
               /\ UNCHANGED context
  /\ UNCHANGED << confidence, analyze_calls, env, only_idk >>
  /\ UNCHANGED outsideConv

\* lines 669-680: the editor's critique is stored in the context
StoreCritique ==
  /\ pc = "critique"
  /\ \E critique \in CritiqueTexts :
       context' = [context EXCEPT !.gathered_info =
                     UpdateInfo(@, CritiqueKey(context.critique_iterations),
                                critique)]
  /\ pc' = "regenerate"
  /\ last_step' = Ran("critique", {"editor"})
  /\ UNCHANGED << confidence, analyze_calls, generation_calls, result, env,
                  only_idk, generated >>
  /\ UNCHANGED outsideConv

\* lines 697-700: the iterations are used up and the regenerated document
\* is still low; a variant that hands back an error in its place
ExhaustedResult_Discards(res) ==
  [res EXCEPT !.status = "error", !.flagged = FALSE, !.quality = "absent"]

ExhaustedResult(res) == res

\* lines 683-700: the regeneration and the decision to recurse
Regenerate ==
  /\ pc = "regenerate"
  /\ generation_calls' = generation_calls + 1
  /\ last_step' = Ran("regenerate", {"pipeline"})
  /\ \E res \in GenerationResults :
       /\ generated' = res
       /\ result' = IF res.quality = "low" /\ ~RetryWanted(context, res)
                    THEN ExhaustedResult(res) ELSE res
       /\ pc' = IF RetryWanted(context, res) THEN "generate" ELSE "done"
  /\ UNCHANGED << context, confidence, analyze_calls, env, only_idk >>
  /\ UNCHANGED outsideConv

\* -------------------------------------------------- coordinate: dispatch
Members ==
  { << "nc_true" >>, << "nc_false" >>,
    << "key", "val" >>,
    << "key", "[", "val", "]" >>,
    << "key", "{", "key", "val", "}" >>,
    << "key", "[", "{", "key", "val", "}", "]" >> }

RECURSIVE JoinMembers(_)
JoinMembers(ms) ==
  IF Len(ms) = 1 THEN ms[1]
  ELSE ms[1] \o << "," >> \o JoinMembers(Tail(ms))

\* the JSON objects with 1..MaxMembers members
ObjectTexts ==
  { << "{" >> \o JoinMembers(ms) \o << "}" >> :
      ms \in UNION { [1..n -> Members] : n \in 1..MaxMembers } }

\* what the dispatcher may answer: an object, an object inside prose, an
\* empty object, JSON that is not an object (a scalar, an array of scalars,
\* an array that holds one object, brackets nested too deeply), and text
\* without JSON (such as the in-band error string of execute_async)
DispatchTexts ==
  ObjectTexts
  \cup { << "txt" >> \o o \o << "txt" >> : o \in ObjectTexts }
  \cup { << "[", "{" >> \o m \o << "}", "]" >> : m \in Members }
  \cup { << "{", "}" >>, << "[", "val", "]" >>, << "val" >>, << "txt" >>,
         << "deep" >> }

NoDispatchInfo == [parsed |-> FALSE, needs_clarification |-> FALSE]

\* lines 122-142: json.loads ends with an exception that the except clause
\* (JSONDecodeError, AttributeError) does not name
DispatchRaises(t) ==
  LET m == RegexBraceMatch(t)
  IN JsonLoads(IF m # << >> THEN m ELSE t) = "recursion"

\* coordinate, lines 122-142
ParseDispatch(t) ==
  LET m == RegexBraceMatch(t)
      src == IF m # << >> THEN m ELSE t
  IN IF JsonLoads(src) = "object"
     THEN [parsed |-> TRUE,
           needs_clarification |-> NeedsClarificationField(src) = "true"]
     ELSE NoDispatchInfo

\* A text an agent returns or a prompt slot holds: who produced it, whether
\* it is content or the in-band error string, and its length in characters.
Text(by, kind, len) == [by |-> by, kind |-> kind, len |-> len]

\* a slot that holds nothing yet
NoText == Text("nobody", "text", 0)

DraftLengths == { 0, 1000, MaxDraftLen }

\* execute_async of agent a returns the response text or an error string
AgentTexts(a) ==
  { Text(a, "text", n) : n \in DraftLengths }
  \cup { Text(a, "error", 40) }

NoCodePlaceholder == Text("coordinator", "text", 29)

SecurityExcerptLimit == 2500

\* t[:n]
Excerpt(t, n) == [t EXCEPT !.len = Min(@, n)]

NoWriterPrompt ==
  [dispatch |-> << >>, requirements |-> NoText, code_analysis |-> NoText]
NoSecurityPrompt == [document |-> NoText]
NoEditorPrompt == [document |-> NoText, security |-> NoText]

Invoked(a) == \E i \in 1..Len(invoked) : invoked[i] = a

\* ------------------------------------------------------ coordinate: actions
\* Phase 1, lines 108-144
Dispatch ==
  /\ cpc = "start"
  /\ \E t \in DispatchTexts :
       /\ dispatch_result' = t
       /\ dispatch_info' = ParseDispatch(t)
       /\ IF DispatchRaises(t)
          THEN cpc' = "raised" /\ coord_result' = "exception"
          ELSE IF ParseDispatch(t).needs_clarification
          THEN cpc' = "returned" /\ coord_result' = "needs_clarification"
          ELSE cpc' = "research" /\ UNCHANGED coord_result
  /\ invoked' = Append(invoked, "dispatcher")
  /\ UNCHANGED << has_code, pending, task_result, completed, requirements,
                  code_analysis, writer_prompt, document, security_prompt,
                  security_result, editor_prompt, final_document,
                  file_written >>
  /\ UNCHANGED outsideCoord

\* Phase 2, lines 152-169: the tasks are created and awaited
StartResearch ==
  /\ cpc = "research"
  /\ invoked' = IF has_code
                THEN invoked \o << "analyst", "researcher" >>
                ELSE Append(invoked, "analyst")
  /\ pending' = IF has_code THEN {"analyst", "researcher"} ELSE {"analyst"}
  /\ cpc' = "gather"
  /\ UNCHANGED << has_code, dispatch_result, dispatch_info, task_result,
                  completed, requirements, code_analysis, writer_prompt,
                  document, security_prompt, security_result, editor_prompt,
                  final_document, file_written, coord_result >>
  /\ UNCHANGED outsideCoord

\* a Phase 2 task completes: its result is kept by the task itself
TaskReturns(a) ==
  /\ cpc = "gather"
  /\ a \in pending
  /\ \E out \in AgentTexts(a) : task_result' = [task_result EXCEPT ![a] = out]
  /\ completed' = Append(completed, a)
  /\ pending' = pending \ {a}
  /\ UNCHANGED << cpc, has_code, dispatch_result, dispatch_info, invoked,
                  requirements, code_analysis, writer_prompt, document,
                  security_prompt, security_result, editor_prompt,
                  final_document, file_written, coord_result >>
  /\ UNCHANGED outsideCoord

\* line 152: the analyst's execute_async returns
AnalystReturns ==
  /\ "analyst" \in pending
  /\ TaskReturns("analyst")

\* line 160: the researcher's execute_async returns
ResearcherReturns ==
  /\ "researcher" \in pending
  /\ TaskReturns("researcher")

\* asyncio.gather(analyst_task, researcher_task) delivered in the order in
\* which the tasks completed
GatherResults_CompletionOrder ==
  << task_result[completed[1]], task_result[completed[2]] >>

\* line 167: asyncio.gather(analyst_task, researcher_task) delivers the
\* results in the order of its arguments
GatherResults ==
  << task_result["analyst"], task_result["researcher"] >>

\* a join that also substitutes the placeholder when the researcher
\* returned the in-band error string
CodeAnalysis_PlaceholderOnError ==
  IF has_code /\ GatherResults[2].kind = "text"
  THEN GatherResults[2] ELSE NoCodePlaceholder

\* lines 166-170: what code_analysis is bound to
CodeAnalysis == IF has_code THEN GatherResults[2] ELSE NoCodePlaceholder

\* lines 166-170: the join, and the placeholder when no researcher ran
JoinResearch ==
  /\ cpc = "gather"
  /\ pending = {}
  /\ requirements' = IF has_code THEN GatherResults[1]
                     ELSE task_result["analyst"]
  /\ code_analysis' = CodeAnalysis
  /\ cpc' = "write"
  /\ UNCHANGED << has_code, dispatch_result, dispatch_info, invoked, pending,
                  task_result, completed, writer_prompt, document,
                  security_prompt, security_result, editor_prompt,
                  final_document, file_written, coord_result >>
  /\ UNCHANGED outsideCoord

\* Phase 3, lines 177-193
WriterRuns ==
  /\ cpc = "write"
  /\ writer_prompt' = [dispatch |-> dispatch_result,
                       requirements |-> requirements,
                       code_analysis |-> code_analysis]
  /\ \E out \in AgentTexts("writer") : document' = out
  /\ invoked' = Append(invoked, "writer")
  /\ cpc' = "security"
  /\ UNCHANGED << has_code, dispatch_result, dispatch_info, pending,
                  task_result, completed, requirements, code_analysis,
                  security_prompt, security_result, editor_prompt,
                  final_document, file_written, coord_result >>
  /\ UNCHANGED outsideCoord

\* the security prompt built from the whole draft
SecurityPrompt_FullDraft == [document |-> document]

\* lines 201-207: the prompt holds document[:2500]
SecurityPrompt == [document |-> Excerpt(document, SecurityExcerptLimit)]

\* Phase 4, lines 201-213
SecurityRuns ==
  /\ cpc = "security"
  /\ security_prompt' = SecurityPrompt
  /\ \E out \in AgentTexts("security_reviewer") : security_result' = out
  /\ invoked' = Append(invoked, "security_reviewer")
  /\ cpc' = "edit"
  /\ UNCHANGED << has_code, dispatch_result, dispatch_info, pending,
                  task_result, completed, requirements, code_analysis,
                  writer_prompt, document, editor_prompt, final_document,
                  file_written, coord_result >>
  /\ UNCHANGED outsideCoord

\* Phase 4, lines 217-226
EditorRuns ==
  /\ cpc = "edit"
  /\ editor_prompt' = [document |-> document, security |-> security_result]
  /\ \E out \in AgentTexts("editor") : final_document' = out
  /\ invoked' = Append(invoked, "editor")
  /\ cpc' = "save"
  /\ UNCHANGED << has_code, dispatch_result, dispatch_info, pending,
                  task_result, completed, requirements, code_analysis,
                  writer_prompt, document, security_prompt, security_result,
                  file_written, coord_result >>
  /\ UNCHANGED outsideCoord

\* lines 230-260: the file is written and the result returned; when mkdir,
\* open or write raises, the exception leaves coordinate
SaveDocument ==
  /\ cpc = "save"
  /\ \E ok \in BOOLEAN :
       IF ok
       THEN file_written' = TRUE /\ cpc' = "returned"
            /\ coord_result' = "document"
       ELSE file_written' = FALSE /\ cpc' = "raised"
            /\ coord_result' = "exception"
  /\ UNCHANGED << has_code, dispatch_result, dispatch_info, invoked, pending,
                  task_result, completed, requirements, code_analysis,
                  writer_prompt, document, security_prompt, security_result,
                  editor_prompt, final_document >>
  /\ UNCHANGED outsideCoord

\* ------------------------------------------------- BaseAgent.execute_async
AgentNames ==
  { "dispatcher", "analyst", "researcher", "writer", "security_reviewer",
    "editor" }

\* the context argument: None, {} or a dict with 1..MaxContextKeys entries
NoneContext == [given |-> FALSE, entries |-> 0]
Contexts ==
  { NoneContext }
  \cup { [given |-> TRUE, entries |-> n] : n \in 0..MaxContextKeys }

MessageLengths == { 0, 1000 }

\* how "await self.agent.run(full_message)" and str(result) can end: with
\* a response of some length, or with an exception
\* says: the error indicators of the assessor that str(e) of the exception
\* contains ("timed out" has none, "deployment not found" has one)
RunOutcomes ==
  { [raises |-> FALSE, len |-> n, says |-> {}] : n \in DraftLengths }
  \cup { [raises |-> TRUE, len |-> 0, says |-> i] :
            i \in { {}, {"not found"} } }

NoMessage == [context_lines |-> 0, user_len |-> 0]
NoOutcome == [raises |-> FALSE, len |-> 0, says |-> {}]

\* how a call of execute_async ends
Returned(t) == [raised |-> FALSE, text |-> t]
Raised == [raised |-> TRUE, text |-> NoText]
NotEnded == [raised |-> FALSE, text |-> NoText]

\* if context: truthiness of the context argument, line 359
ContextGiven(ctx) == ctx.given /\ ctx.entries > 0

\* _format_context, lines 520-525: one line per entry
FormatContext(ctx) == ctx.entries

\* lines 358-361
FullMessage(user_len, ctx) ==
  IF ContextGiven(ctx)
  THEN [context_lines |-> FormatContext(ctx), user_len |-> user_len]
  ELSE [context_lines |-> 0, user_len |-> user_len]

\* a handler that lets the exception of agent.run leave execute_async
OnRunFailure_Propagates(name) == Raised

\* lines 368-369: except Exception as e: return f"Error in {self.name}: ..."
OnRunFailure(name) == Returned(Text(name, "error", 40))

\* the error indicators of the assessor that occur in the failure string of
\* a call: "Error: Microsoft Agent Framework not available for <name>",
\* "Error: <name> not registered. Call register_agent() first." or
\* "Error in <name>: <str(e)>", where only str(e) can hold one
FailureIndicators(a, o) ==
  IF ~a.sdk_available THEN { "Error:", "not available" }
  ELSE IF ~a.registered THEN { "Error:" }
  ELSE o.says

\* lines 351-361: the checks and the message, up to the await of agent.run
ExecuteAsyncBegins ==
  /\ apc = "called"
  /\ IF ~agent.sdk_available \/ ~agent.registered
     THEN /\ agent_out' = Returned(Text(agent.name, "error", 40))
          /\ apc' = "ended"
          /\ UNCHANGED full_message
     ELSE /\ full_message' = FullMessage(call.user_len, call.context)
          /\ apc' = "running"
          /\ UNCHANGED agent_out
  /\ UNCHANGED << agent, call, run_outcome >>
  /\ UNCHANGED outsideAgent

\* lines 363-369: agent.run ends and its result or failure is handled
AgentRunEnds ==
  /\ apc = "running"
  /\ \E o \in RunOutcomes :
       /\ run_outcome' = o
       /\ agent_out' = IF o.raises
                       THEN OnRunFailure(agent.name)
                       ELSE Returned(Text(agent.name, "text", o.len))
  /\ apc' = "ended"
  /\ UNCHANGED << agent, call, full_message >>
  /\ UNCHANGED outsideAgent

\* ------------------------------------- _extract_json_from_response: calls
\* values a member or an element may hold
InnerValues ==
  { ScalarValue, ArrayValue(<< >>), ArrayValue(<< ScalarValue >>),
    EmptyObject, ObjectValue("absent", << ScalarValue >>),
    ObjectValue("true", << >>),
    ArrayValue(<< ObjectValue("absent", << ScalarValue >>) >>) }

\* the mappings: objects with or without each of the two members
Mappings ==
  { ObjectValue(nc, items) :
      nc \in { "absent", "true", "false" },
      items \in { << >> } \cup { << v >> : v \in InnerValues } }

RECURSIVE JsonDumps(_, _), DumpElements(_, _)

DumpElements(vs, nc_first) ==
  IF Len(vs) = 1 THEN JsonDumps(vs[1], nc_first)
  ELSE JsonDumps(vs[1], nc_first) \o << "," >>
       \o DumpElements(Tail(vs), nc_first)

\* the JSON text of a value; nc_first tells which member was inserted first
JsonDumps(v, nc_first) ==
  IF v.type = "scalar" THEN << "val" >>
  ELSE IF v.type = "array"
  THEN IF v.items = << >> THEN << "[", "]" >>
       ELSE << "[" >> \o DumpElements(v.items, nc_first) \o << "]" >>
  ELSE LET ncm == IF v.nc = "true" THEN << "nc_true" >>
                  ELSE IF v.nc = "false" THEN << "nc_false" >>
                  ELSE << >>
           km == IF v.items = << >> THEN << >>
                 ELSE << "key" >> \o JsonDumps(v.items[1], nc_first)
           sep == IF ncm # << >> /\ km # << >> THEN << "," >> ELSE << >>
       IN << "{" >>
          \o (IF nc_first THEN ncm \o sep \o km ELSE km \o sep \o ncm)
          \o << "}" >>

Response(is_str, text) == [is_str |-> is_str, text |-> text]

\* responses that are not the JSON text of a mapping: JSON that is not an
\* object, objects in prose or in a fenced block, malformed JSON, text for
\* the fourth strategy, plain text, the empty string and None
OtherResponses ==
  { Response(TRUE, t) : t \in
      { << "val" >>, << "[", "]" >>, << "[", "val", ",", "val", "]" >>,
        << "[", "{", "key", "val", "}", "]" >>,
        << "txt", "{", "key", "{", "nc_true", "}", "}", "txt" >>,
        << "txt", "{", "nc_false", "}" >>,
        << "txt", "{", "}", "txt" >>,
        << "fence", "{", "key", "val", "}", "fence" >>,
        << "txt", "fence", "{", "nc_true", ",", "key", "val", "}", "fence",
           "txt" >>,
        << "fence", "{", "key", "val", ",", "}", "fence" >>,
        << "fence", "{", "}", "fence" >>,
        << "fence", "[", "val", "]", "fence" >>,
        << "{", "key", "val" >>, << "{", "key", "val", ",", "}" >>,
        << "{", "key", "{", "key", "val", "}" >>,
        << "}", "{", "key", "val", "}" >>,
        << "{", "nc_true", "key", "val", "}" >>,
        << "txt", "pq" >>, << "an" >>, << "{", "pq", ",", "an", "}" >>,
        << "txt", "nc_true" >>, << "nc_false", "txt" >>,
        << "txt" >>, << >> } }
  \cup { Response(FALSE, << >>) }

NotParsed == Extracted(0, NoValue, {})

\* the function is called with a response
ExtractJson ==
  /\ ppc = "called"
  /\ parsed' = ExtractJsonFromResponse(version, response)
  /\ ppc' = "done"
  /\ UNCHANGED << version, source, response >>
  /\ UNCHANGED outsideParse

\* ------------------------------------------------ _assess_document_quality
\* A document is modelled by what the assessor inspects: the number of
\* whitespace-separated words, the section indicators it contains, whether
\* it contains an error indicator or a placeholder marker, whether it
\* contains the word requirements or specification in some other place,
\* and its number of lines.
SectionIndicators ==
  { "#", "##", "###", "Introduction", "Overview", "Requirements",
    "Conclusion" }

\* indicator sets a text can contain: "###" contains "##" and "#"
MarkerSets ==
  { {}, { "#" }, { "#", "##", "###" }, { "Requirements" } }

\* short texts without, long texts with the word specification
Layouts ==
  { [spec_word |-> FALSE, lines |-> 5], [spec_word |-> TRUE, lines |-> 40] }

Documents ==
  { [ words |-> w, markers |-> m, has_error |-> e, has_placeholder |-> p,
      spec_word |-> l.spec_word, lines |-> l.lines ] :
      w \in { 200, 700, MaxWords }, m \in MarkerSets, e \in BOOLEAN,
      p \in BOOLEAN, l \in Layouts }

\* the other two arguments, doc_type and context
AssessArgs ==
  { [doc_type |-> "BRD", context |-> [given |-> TRUE, entries |-> 0]],
    [doc_type |-> "API", context |-> [given |-> TRUE, entries |-> 1]] }

NoDocument ==
  [ words |-> 0, markers |-> {}, has_error |-> FALSE,
    has_placeholder |-> FALSE, spec_word |-> FALSE, lines |-> 0 ]

\* lines 456-463
NewAssessment(d) ==
  [ confidence |-> "high", flags |-> << >>, issues |-> << >>,
    word_count |-> d.words, has_sections |-> FALSE, completeness |-> 0 ]

Lowered(a, issue) ==
  [a EXCEPT !.confidence = "low",
            !.flags = Append(@, "low_confidence"),
            !.issues = Append(@, issue)]

\* lines 466-472
LengthRule(a) ==
  IF a.word_count < 500 THEN Lowered(a, "too_short")
  ELSE IF a.word_count < 1000
  THEN [a EXCEPT !.confidence = "medium",
                 !.issues = Append(@, "relatively_short")]
  ELSE a

\* lines 475-481
SectionRule(a, d) ==
  LET b == [a EXCEPT !.has_sections = (d.markers # {})]
  IN IF ~b.has_sections THEN Lowered(b, "missing_sections") ELSE b

\* line 484
ErrorIndicators ==
  { "Error:", "Failed:", "not available", "not found", "Exception" }

\* a document that consists of one line of text in which the given
\* indicators occur
OneLineDocument(indicators) ==
  [ words |-> 8, markers |-> {},
    has_error |-> (indicators \cap ErrorIndicators # {}),
    has_placeholder |-> FALSE, spec_word |-> FALSE, lines |-> 1 ]

\* lines 484-488
ErrorRule(a, d) ==
  IF d.has_error THEN Lowered(a, "error_messages") ELSE a

\* lines 491-494
PlaceholderRule(a, d) ==
  IF d.has_placeholder
  THEN [a EXCEPT !.confidence = "medium",
                 !.issues = Append(@, "placeholder_text")]
  ELSE a

\* lines 497-504: the number of completeness factors that hold, out of 5
CompletenessFactors(a, d) ==
  (IF a.word_count >= 1000 THEN 1 ELSE 0)
  + (IF a.has_sections THEN 1 ELSE 0)
  + (IF Cardinality(d.markers) >= 3 THEN 1 ELSE 0)
  + (IF "Requirements" \in d.markers \/ d.spec_word THEN 1 ELSE 0)
  + (IF d.lines >= 20 THEN 1 ELSE 0)

\* a completeness rule that records the score and leaves the confidence
CompletenessRule_ScoreOnly(a, d) ==
  [a EXCEPT !.completeness = CompletenessFactors(a, d)]

\* lines 504-509: completeness_score < 0.5
CompletenessRule(a, d) ==
  LET b == [a EXCEPT !.completeness = CompletenessFactors(a, d)]
  IN IF 2 * b.completeness < 5 THEN Lowered(b, "low_completeness") ELSE b

\* an assessor whose length rule depends on the document type
AssessDocumentQuality_ByType(doc, doc_type, dcontext) ==
  LET a == IF doc_type = "API" THEN NewAssessment(doc)
           ELSE LengthRule(NewAssessment(doc))
  IN CompletenessRule(
       PlaceholderRule(ErrorRule(SectionRule(a, doc), doc),
                       doc),
       doc)

\* _assess_document_quality(document, doc_type, context), lines 452-512
AssessDocumentQuality(doc, doc_type, dcontext) ==
  CompletenessRule(
    PlaceholderRule(
      ErrorRule(SectionRule(LengthRule(NewAssessment(doc)), doc),
                doc),
      doc),
    doc)

NoCall ==
  [document |-> NoDocument, doc_type |-> "BRD", context |-> NoneContext]
NoPrevious == [call |-> NoCall, assessment |-> NewAssessment(NoDocument)]

\* one call of the assessor; the call before it is remembered
AssessDocument ==
  /\ qcalls < MaxAssessCalls
  /\ \E d \in Documents, args \in AssessArgs :
       /\ qcall' = [document |-> d, doc_type |-> args.doc_type,
                    context |-> args.context]
       /\ assessment' = AssessDocumentQuality(d, args.doc_type, args.context)
  /\ previous' = [call |-> qcall, assessment |-> assessment]
  /\ qcalls' = qcalls + 1
  /\ UNCHANGED outsideAssess

\* ------------------------------------------- generate_documentation_async
\* the keys of the dict coordinate returns, lines 245-260 and 134-138
CoordinateResultKeys ==
  { "document", "output_path", "document_type", "workflow",
    "agents_involved", "collaboration_summary", "coordination_mode",
    "context", "log" }
ClarificationResultKeys == { "status", "dispatch_info", "context" }

NoGenResult == [keys |-> {}, flags |-> << >>]

\* result.get("flags", []) of a result of coordinate, which has no such key
ResultFlags(keys) == << >>

\* orchestrator.py lines 130-133 and 210: the result of coordinate is
\* handed back as it is, unless it asks for clarification; an exception of
\* coordinate passes through
GenerationReturns ==
  /\ gpc = "coordinating"
  /\ cpc \in { "returned", "raised" }
  /\ IF cpc = "raised"
     THEN gpc' = "raised" /\ UNCHANGED gen_result
     ELSE IF coord_result = "needs_clarification"
     THEN /\ gpc' = "clarifying"
          /\ gen_result' = [keys |-> ClarificationResultKeys,
                            flags |-> ResultFlags(ClarificationResultKeys)]
     ELSE /\ gpc' = "returned"
          /\ gen_result' = [keys |-> CoordinateResultKeys,
                            flags |-> ResultFlags(CoordinateResultKeys)]
  /\ UNCHANGED outsideGen

\* conversation_manager.py lines 639-642 and 700: the test for a critique
CheckFlags ==
  /\ gpc = "returned"
  /\ gpc' = IF CritiqueWanted(context,
                 [flagged |-> \E i \in 1..Len(gen_result.flags) :
                                 gen_result.flags[i] = "low_confidence"])
            THEN "critique" ELSE "accepted"
  /\ UNCHANGED gen_result
  /\ UNCHANGED outsideGen

\* ---------------------------------------------------------------- _log_step
\* a value of the data mapping: a string of len characters, or another
\* value, which has no length
LogString(n) == [is_str |-> TRUE, len |-> n]

DefaultMaxLogSize == 1000

MaxLogEntries == 3
MaxRequestLen == 2000

\* len(str(n)) of a natural number
RECURSIVE Digits(_)
Digits(n) == IF n < 10 THEN 1 ELSE 1 + Digits(n \div 10)

\* _truncate_for_log: text[:max] + "... [truncated N chars]"
TruncateForLog(v) ==
  IF ~v.is_str \/ v.len <= DefaultMaxLogSize THEN v
  ELSE LogString(DefaultMaxLogSize + 15 + Digits(v.len - DefaultMaxLogSize)
                 + 7)

\* the entry _log_step appends; the timestamp has the form 20261103_214600
LogEntry(step_name, data) ==
  [step |-> step_name,
   timestamp |-> LogString(15),
   data |-> [k \in DOMAIN data |->
               IF data[k].is_str THEN TruncateForLog(data[k]) ELSE data[k]]]

\* lengths of the request handed to generate_documentation_async
RequestLengths ==
  { 0, DefaultMaxLogSize - 1, DefaultMaxLogSize, DefaultMaxLogSize + 1,
    DefaultMaxLogSize + 10, MaxRequestLen }

\* generate_documentation_async, line 121: the call of _log_step
LogStep ==
  /\ Len(workflow_log) < MaxLogEntries
  /\ \E n \in RequestLengths :
       workflow_log' =
         Append(workflow_log,
                LogEntry("Workflow Started",
                         [request |-> LogString(n), mode |-> LogString(10)]))
  /\ UNCHANGED outsideLog

\* ------------------------------------------------------------ specification
\* no run of coordinate is in progress
\* the local variables of coordinate before the run assigns them
CoordFresh ==
  /\ dispatch_result = << >>
  /\ dispatch_info = NoDispatchInfo
  /\ invoked = << >>
  /\ pending = {}
  /\ task_result = [a \in {"analyst", "researcher"} |-> NoText]
  /\ completed = << >>
  /\ requirements = NoText
  /\ code_analysis = NoText
  /\ writer_prompt = NoWriterPrompt
  /\ document = NoText
  /\ security_prompt = NoSecurityPrompt
  /\ security_result = NoText
  /\ editor_prompt = NoEditorPrompt
  /\ final_document = NoText
  /\ file_written = FALSE
  /\ coord_result = "none"

CoordIdle ==
  /\ cpc = "idle"
  /\ has_code = FALSE
  /\ CoordFresh

\* no call of execute_async is in progress
AgentIdle ==
  /\ apc = "idle"
  /\ agent = [name |-> "dispatcher", sdk_available |-> TRUE,
              registered |-> TRUE]
  /\ call = [user_len |-> 0, context |-> NoneContext]
  /\ full_message = NoMessage
  /\ run_outcome = NoOutcome
  /\ agent_out = NotEnded

\* no call of _extract_json_from_response is in progress
ParseIdle ==
  /\ ppc = "idle"
  /\ version = "conversation"
  /\ source = NoValue
  /\ response = Response(FALSE, << >>)
  /\ parsed = NotParsed

\* the assessor has not been called
AssessIdle ==
  /\ qcalls = 0
  /\ qcall = NoCall
  /\ assessment = NewAssessment(NoDocument)
  /\ previous = NoPrevious

\* nothing has been logged: workflow_log = [] of the constructor
LogIdle == workflow_log = << >>

\* generate_documentation_async has not been called
GenIdle ==
  /\ gpc = "idle"
  /\ gen_result = NoGenResult

\* no dialogue is in progress
ConvIdle ==
  /\ env = CHOOSE e \in Environments : ~e.code_directory
  /\ context = DefaultContext(env)
  /\ pc = "idle"
  /\ confidence = Rat(0, 1)
  /\ analyze_calls = 0
  /\ generation_calls = 0
  /\ result = NoResult
  /\ only_idk = TRUE
  /\ generated = NoResult
  /\ last_step = NoStep

\* a dialogue: the context has just been constructed
Init ==
  /\ env \in Environments
  /\ \E conf \in ConfidenceArgs, max_rounds \in 0..MaxRoundsArg,
        max_critique \in 1..MaxCritiqueArg :
       context = PostInit(env, conf, 0, max_rounds, 0,
                          DefaultMaxEmptyResponses, max_critique)
  /\ pc = "created"
  /\ confidence = Rat(0, 1)
  /\ analyze_calls = 0
  /\ generation_calls = 0
  /\ result = NoResult
  /\ only_idk = TRUE
  /\ generated = NoResult
  /\ last_step = NoStep
  /\ CoordIdle
  /\ AgentIdle
  /\ ParseIdle
  /\ AssessIdle
  /\ LogIdle
  /\ GenIdle

Next ==
  \/ StartConversation
  \/ AutoTriggerConversation
  \/ CalculateConfidenceCall
  \/ AnalyzeAndClarify
  \/ ProcessShortResponse
  \/ ProcessUserResponse
  \/ ProceedCommand
  \/ Generate
  \/ StoreCritique
  \/ Regenerate

vars ==
  << convVars, coordVars, agentVars, parseVars, assessVars, genVars,
     logVars >>

Spec == Init /\ [][Next]_vars

\* a run of coordinate(request, context)
InitCoord ==
  /\ ConvIdle
  /\ AgentIdle
  /\ ParseIdle
  /\ AssessIdle
  /\ LogIdle
  /\ GenIdle
  /\ cpc = "start"
  /\ has_code \in BOOLEAN
  /\ CoordFresh

NextCoord ==
  \/ Dispatch
  \/ StartResearch
  \/ AnalystReturns
  \/ ResearcherReturns
  \/ JoinResearch
  \/ WriterRuns
  \/ SecurityRuns
  \/ EditorRuns
  \/ SaveDocument

SpecCoord == InitCoord /\ [][NextCoord]_vars

\* a call execute_async(user_message, context) of one agent
InitAgent ==
  /\ ConvIdle
  /\ CoordIdle
  /\ ParseIdle
  /\ AssessIdle
  /\ LogIdle
  /\ GenIdle
  /\ apc = "called"
  /\ agent \in [name : AgentNames, sdk_available : BOOLEAN,
                 registered : BOOLEAN]
  /\ call \in [user_len : MessageLengths, context : Contexts]
  /\ full_message = NoMessage
  /\ run_outcome = NoOutcome
  /\ agent_out = NotEnded

NextAgent ==
  \/ ExecuteAsyncBegins
  \/ AgentRunEnds

SpecAgent == InitAgent /\ [][NextAgent]_vars

\* a call _extract_json_from_response(response) of either copy
InitParse ==
  /\ ConvIdle
  /\ CoordIdle
  /\ AgentIdle
  /\ AssessIdle
  /\ LogIdle
  /\ GenIdle
  /\ ppc = "called"
  /\ version \in { "conversation", "orchestrator" }
  /\ source \in Mappings \cup { NoValue }
  /\ IF source = NoValue
     THEN response \in OtherResponses
     ELSE \E nc_first \in BOOLEAN :
            response = Response(TRUE, JsonDumps(source, nc_first))
  /\ parsed = NotParsed

NextParse == ExtractJson

SpecParse == InitParse /\ [][NextParse]_vars

\* calls of _assess_document_quality, one after the other
InitAssess ==
  /\ ConvIdle
  /\ CoordIdle
  /\ AgentIdle
  /\ ParseIdle
  /\ AssessIdle
  /\ LogIdle
  /\ GenIdle

NextAssess == AssessDocument

SpecAssess == InitAssess /\ [][NextAssess]_vars

\* _proceed_with_generation calls generate_documentation_async, which runs
\* coordinate, and tests the result for a critique
InitGen ==
  /\ ConvIdle
  /\ AgentIdle
  /\ ParseIdle
  /\ AssessIdle
  /\ LogIdle
  /\ cpc = "start"
  /\ has_code \in BOOLEAN
  /\ CoordFresh
  /\ gpc = "coordinating"
  /\ gen_result = NoGenResult

NextGen ==
  \/ NextCoord
  \/ GenerationReturns
  \/ CheckFlags

SpecGen == InitGen /\ [][NextGen]_vars

\* a call of _ask_basic_questions for a context that holds any set of the
\* fact keys the method looks at
BasicKeys ==
  { "application_type", "document_types", "document_type", "key_features",
    "features", "stakeholders", "technical_stack", "tech_stack" }

AskBasicQuestionsCall ==
  /\ pc = "ask_basic"
  /\ context' = AskBasicQuestions(context)
  /\ result' = NeedsClarification(context')
  /\ last_step' = Ran("_ask_basic_questions", {})
  /\ pc' = "waiting"
  /\ UNCHANGED << confidence, analyze_calls, generation_calls, env, only_idk,
                  generated >>
  /\ UNCHANGED outsideConv

InitBasic ==
  /\ env \in Environments
  /\ \E ks \in SUBSET BasicKeys :
       context = [DefaultContext(env) EXCEPT
                    !.gathered_info = [k \in ks |-> S_MED],
                    !.clarification_round = 1]
  /\ pc = "ask_basic"
  /\ confidence = Rat(0, 1)
  /\ analyze_calls = 1
  /\ generation_calls = 0
  /\ result = NoResult
  /\ only_idk = TRUE
  /\ generated = NoResult
  /\ last_step = NoStep
  /\ CoordIdle
  /\ AgentIdle
  /\ ParseIdle
  /\ AssessIdle
  /\ LogIdle
  /\ GenIdle

NextBasic ==
  \/ AskBasicQuestionsCall

SpecBasic == InitBasic /\ [][NextBasic]_vars

\* the interactive loop of generate_documentation_async, orchestrator.py
\* lines 162-186: each pass reads a line with input(...).strip()

\* lines 181-183: an empty line prints a reminder and the loop reads again
EmptyLine ==
  /\ pc = "waiting"
  /\ \E line \in UserAnswers :
       /\ StripLen(line) = 0
       /\ last_step' = Step("input", line, "unasked", {})
  /\ UNCHANGED << context, pc, confidence, analyze_calls, generation_calls,
                  result, env, only_idk, generated >>
  /\ UNCHANGED outsideConv

\* line 186: a line that is not empty is handed to process_user_response
LoopShortResponse ==
  /\ ProcessShortResponse
  /\ StripLen(last_step'.answer) > 0

LoopUserResponse ==
  /\ ProcessUserResponse
  /\ StripLen(last_step'.answer) > 0

\* lines 143-160: the conversation the orchestrator creates on the fly
InitLoop ==
  /\ env \in Environments
  /\ context = DefaultContext(env)
  /\ pc = "created"
  /\ confidence = Rat(0, 1)
  /\ analyze_calls = 0
  /\ generation_calls = 0
  /\ result = NoResult
  /\ only_idk = TRUE
  /\ generated = NoResult
  /\ last_step = NoStep
  /\ CoordIdle
  /\ AgentIdle
  /\ ParseIdle
  /\ AssessIdle
  /\ LogIdle
  /\ GenIdle

NextLoop ==
  \/ AutoTriggerConversation
  \/ CalculateConfidenceCall
  \/ AnalyzeAndClarify
  \/ EmptyLine
  \/ LoopShortResponse
  \/ LoopUserResponse
  \/ ProceedCommand
  \/ Generate
  \/ StoreCritique
  \/ Regenerate

\* the loop is sequential code: it keeps running while a step is possible;
\* which line the user types is not constrained
SpecLoop == InitLoop /\ [][NextLoop]_vars /\ WF_vars(NextLoop)

\* calls of generate_documentation_async on one orchestrator, as far as the
\* log is concerned
InitLog ==
  /\ ConvIdle
  /\ CoordIdle
  /\ AgentIdle
  /\ ParseIdle
  /\ AssessIdle
  /\ GenIdle
  /\ workflow_log = << >>

NextLog ==
  \/ LogStep

SpecLog == InitLog /\ [][NextLog]_vars

\* -------------------------------------------------------------- properties
\* C1: from a fresh context, generation is entered after at most
\* max_clarification_rounds + 1 calls of _analyze_and_clarify: the number of
\* calls never exceeds that bound, and a call that hands questions back
\* to the user is at most the max_clarification_rounds-th.
C1_GenerationWithinCalls ==
  /\ analyze_calls <= context.max_clarification_rounds + 1
  /\ pc = "waiting" => analyze_calls <= context.max_clarification_rounds

\* generation entered by exactly the last allowed call, with the default cap
C1_Witness ==
  /\ pc = "generate"
  /\ context.max_clarification_rounds = DefaultMaxRounds
  /\ analyze_calls = DefaultMaxRounds + 1
  /\ Len(context.conversation_history) = DefaultMaxRounds

\* C2: one call of _proceed_with_generation that starts with
\* critique_iterations = 0 makes at most max_critique_iterations calls of
\* generate_documentation_async after the first one.
C2_RegenerationsWithinCap ==
  generation_calls <= 1 + context.max_critique_iterations

\* values of stripped length >= 5 that are not none / n/a / unknown
SubstantiveValues == { S_MED, S_DETAIL, S_LONG }
FactKeys ==
  ExtractKeys \cup { "stakeholders", "document_types", "latest_response" }

\* C3: adding one substantive fact under a new key, everything else
\* unchanged, never lowers the value of _calculate_confidence.
C3_AddingFactNeverLowers ==
  \A k \in FactKeys \ DOMAIN context.gathered_info, v \in SubstantiveValues :
     RatLeq(CalculateConfidence(context),
            CalculateConfidence([context EXCEPT !.gathered_info =
                                   UpdateInfo(@, k, v)]))

\* C4: confidence_score is within [0,1] in every state, and so is the value
\* _calculate_confidence returns for the state's context.
C4_ConfidenceInUnitInterval ==
  /\ InUnitInterval(context.confidence_score)
  /\ InUnitInterval(confidence)
  /\ InUnitInterval(CalculateConfidence(context))

\* the unclamped score is above 1 and the stored score is exactly 1
C4_Witness ==
  /\ pc = "generate"
  /\ RatLess(Rat(100, 1), RawConfidence(context))
  /\ context.confidence_score.num = 100 * context.confidence_score.den

\* C5: the call of _calculate_confidence leaves gathered_info,
\* conversation_history, clarification_round, empty_response_count,
\* last_questions and confidence_score as they were.
C5_CalculateConfidenceIsPure ==
  [][pc = "analyze" =>
       /\ context'.gathered_info = context.gathered_info
       /\ context'.conversation_history = context.conversation_history
       /\ context'.clarification_round = context.clarification_round
       /\ context'.empty_response_count = context.empty_response_count
       /\ context'.last_questions = context.last_questions
       /\ context'.confidence_score = context.confidence_score]_vars

\* the function has returned a score that differs from the stored one, for
\* a context that holds facts, history and questions
C5_Witness ==
  /\ pc = "decide"
  /\ DOMAIN context.gathered_info # {}
  /\ context.conversation_history # << >>
  /\ context.last_questions # << >>
  /\ confidence # context.confidence_score

C7_RoundWithinBounds ==
  /\ 0 <= context.clarification_round
  /\ context.clarification_round <= context.max_clarification_rounds + 1

\* the user is asked in the last allowed round
C7_Witness ==
  /\ pc = "waiting"
  /\ context.clarification_round = context.max_clarification_rounds
  /\ context.max_clarification_rounds = DefaultMaxRounds

\* C8: no value stored in gathered_info is empty or whitespace-only.
C8_NoBlankFacts ==
  \A k \in DOMAIN context.gathered_info :
     StripLen(context.gathered_info[k]) > 0

\* C9: last_questions never holds more than 3 questions.
C9_AtMostThreeQuestions == Len(context.last_questions) <= QuestionBatchLimit

\* C10: when the dispatcher's response is a JSON object whose
\* needs_clarification member is true, coordinate returns needs_clarification
\* at once: no other agent is invoked and no file is written.
C10_ClarificationStopsPipeline ==
  (JsonLoads(dispatch_result) = "object"
     /\ NeedsClarificationField(dispatch_result) = "true")
  => /\ invoked = << "dispatcher" >>
     /\ cpc = "returned"
     /\ coord_result = "needs_clarification"
     /\ ~file_written

\* the agents a run invokes, in order
ExpectedOrder ==
  << "dispatcher", "analyst" >>
  \o (IF has_code THEN << "researcher" >> ELSE << >>)
  \o << "writer", "security_reviewer", "editor" >>

\* C11: once the writer has been invoked, every launched Phase 2 task has
\* completed, and whatever the order in which they completed, the
\* requirements slot of the writer prompt holds what the analyst returned and
\* the code-analysis slot what the researcher returned.
C11_WriterSeesBothResults ==
  Invoked("writer") =>
    /\ pending = {}
    /\ Len(completed) = (IF has_code THEN 2 ELSE 1)
    /\ writer_prompt.requirements = task_result["analyst"]
    /\ writer_prompt.requirements.by = "analyst"
    /\ has_code => /\ writer_prompt.code_analysis = task_result["researcher"]
                   /\ writer_prompt.code_analysis.by = "researcher"

\* the researcher finished first, with a different text than the analyst
C11_Witness ==
  /\ Invoked("writer")
  /\ completed = << "researcher", "analyst" >>
  /\ task_result["analyst"].kind = "text"
  /\ task_result["researcher"].kind = "error"

\* C12: the agents are invoked in the order dispatcher, analyst /
\* researcher, writer, security reviewer, editor, each at most once, and a
\* run that returns a document invoked them all; the security reviewer is
\* given the first 2500 characters of the writer's draft, and the editor the
\* whole draft together with what the security reviewer returned.
C12_SequentialReview ==
  /\ Len(invoked) <= Len(ExpectedOrder)
  /\ invoked = SubSeq(ExpectedOrder, 1, Len(invoked))
  /\ coord_result = "document" => invoked = ExpectedOrder
  /\ Invoked("security_reviewer") =>
       /\ document.by = "writer"
       /\ security_prompt.document.by = "writer"
       /\ security_prompt.document.kind = document.kind
       /\ security_prompt.document.len = Min(document.len, 2500)
  /\ Invoked("editor") =>
       /\ security_result.by = "security_reviewer"
       /\ editor_prompt.document = document
       /\ editor_prompt.security = security_result

\* a run returned a document whose draft was longer than 2500 characters
C12_Witness ==
  /\ cpc = "returned"
  /\ coord_result = "document"
  /\ has_code
  /\ document.len > 2500
  /\ security_prompt.document.len = 2500
  /\ editor_prompt.document.len = document.len

\* C18: when the final document cannot be written to its file, coordinate
\* still returns the result holding the final document; the failure does not
\* leave coordinate as an exception.
C18_WriteFailureKeepsResult ==
  (Invoked("editor") /\ cpc \in {"returned", "raised"} /\ ~file_written)
  => /\ cpc = "returned"
     /\ coord_result = "document"

\* C19: execute_async never ends with an exception: without the SDK,
\* without a registered agent, or when the run call fails, it returns a
\* string that begins with "Error"; otherwise it returns the response text.
C19_ExecuteAsyncNeverRaises ==
  /\ ~agent_out.raised
  /\ apc = "ended" =>
       IF ~agent.sdk_available \/ ~agent.registered \/ run_outcome.raises
       THEN agent_out.text.kind = "error"
       ELSE agent_out.text = Text(agent.name, "text", run_outcome.len)

\* the run call of a registered agent failed
C19_Witness ==
  /\ apc = "ended"
  /\ agent.sdk_available
  /\ agent.registered
  /\ call.context.entries = MaxContextKeys
  /\ run_outcome.raises
  /\ agent_out.text.kind = "error"

\* C13: for every input, _extract_json_from_response returns a mapping,
\* the empty mapping when no strategy succeeds; also for input that is
\* valid JSON but not an object.
C13_ParserReturnsMapping ==
  ppc = "done" =>
    /\ parsed.value.type = "object"
    /\ parsed.strategy \in { 0, 5 } => parsed.value = EmptyObject

\* C14: parsing the JSON text of a mapping returns a mapping equal to it,
\* by strategy 1.
C14_CleanJsonRoundTrips ==
  (ppc = "done" /\ source.type = "object")
  => /\ parsed.value = source
     /\ parsed.strategy = 1

\* a mapping with both members, one of them an array of objects
C14_Witness ==
  /\ ppc = "done"
  /\ source = ObjectValue("true",
                 << ArrayValue(<< ObjectValue("absent", << ScalarValue >>) >>) >>)
  /\ response.text[2] = "key"
  /\ parsed.value = source

\* C15: two calls of _assess_document_quality on the same document return
\* the same assessment, whatever the doc_type and the context of each call
\* and whatever was assessed before.
C15_AssessmentDeterministic ==
  (qcalls >= 2 /\ qcall.document = previous.call.document)
  => assessment = previous.assessment

\* the same document assessed under another type and context
C15_Witness ==
  /\ qcalls = 2
  /\ qcall.document = previous.call.document
  /\ qcall.doc_type # previous.call.doc_type
  /\ qcall.context # previous.call.context
  /\ qcall.document.words < 500
  /\ assessment.confidence = "low"

\* a rule that sets the confidence to low fires on the document
LowRuleFires(d) ==
  \/ d.words < 500
  \/ d.markers = {}
  \/ d.has_error
  \/ 2 * CompletenessFactors([has_sections |-> d.markers # {},
                              word_count |-> d.words], d) < 5

\* C16: the most severe rule wins: when a low rule fires the confidence is
\* low, also for a document with placeholder markers.
C16_MostSevereRuleWins ==
  (qcalls > 0 /\ LowRuleFires(qcall.document))
  => assessment.confidence = "low"

\* C17: a result with a document that generate_documentation_async returns
\* carries the assessment of the quality assessor (flags and quality), and
\* when the document is low-quality (fewer than 500 characters, hence fewer
\* than 500 words) the low_confidence flag starts the self-critique loop.
C17_ResultsCarryAssessment ==
  gpc \in { "returned", "critique", "accepted" } =>
    /\ { "flags", "quality" } \subseteq gen_result.keys
    /\ final_document.len < 500 =>
         /\ \E i \in 1..Len(gen_result.flags) :
               gen_result.flags[i] = "low_confidence"
         /\ gpc # "accepted"

\* the "idk" answers given so far
IdkAnswers == Len(context.conversation_history)

C21_ReturnsLatestGeneration ==
  (pc = "done" /\ generation_calls > 0) =>
     /\ result = generated
     /\ result.status = "document"

\* the iterations are used up and the regenerated document is still low
C21_Witness ==
  /\ pc = "done"
  /\ last_step.op = "regenerate"
  /\ generated.quality = "low"
  /\ generated.flagged
  /\ context.critique_iterations = context.max_critique_iterations
  /\ context.max_critique_iterations = DefaultMaxCritiqueIterations

\* C22: when process_user_response is given an answer whose stripped length
\* is below 3 and empty_response_count stays below max_empty_responses after
\* the increment, it adds exactly 1 to empty_response_count and returns
\* needs_clarification with the same last_questions; clarification_round,
\* conversation_history, gathered_info and last_questions are unchanged and
\* no agent is called.
C22_ShortAnswerReasks ==
  [][(/\ last_step'.op = "process_user_response"
       /\ StripLen(last_step'.answer) < 3
       /\ context.empty_response_count + 1 < context.max_empty_responses)
     => /\ context'.empty_response_count = context.empty_response_count + 1
        /\ pc' = "waiting"
        /\ result'.status = "needs_clarification"
        /\ result'.questions = context.last_questions
        /\ result'.round = context.clarification_round
        /\ context'.clarification_round = context.clarification_round
        /\ context'.conversation_history = context.conversation_history
        /\ context'.gathered_info = context.gathered_info
        /\ context'.last_questions = context.last_questions
        /\ last_step'.agents = {}
        /\ analyze_calls' = analyze_calls
        /\ generation_calls' = generation_calls]_vars

\* a whitespace-only answer has been turned back with the questions that
\* were asked, in a dialogue that holds facts and history
C22_Witness ==
  /\ pc = "waiting"
  /\ last_step.op = "process_user_response"
  /\ last_step.answer = S_BLANK
  /\ context.empty_response_count = 1
  /\ result.questions = context.last_questions
  /\ context.last_questions # << >>
  /\ context.conversation_history # << >>
  /\ DOMAIN context.gathered_info # {}

\* answers of 3 or more characters: with and without a disengagement
\* phrase, on both sides of the 20-character limit, padded and not
LongerAnswers ==
  { S_IDK, S_YES, S_NONE, S_MED, S_DETAIL, S_LONG,
    Str(3, 2, FALSE, TRUE), Str(19, 0, FALSE, TRUE),
    Str(20, 0, FALSE, TRUE), Str(30, 0, FALSE, TRUE) }

C24_RawAnswerKeptOnParseFailure ==
  [][(/\ last_step'.op = "process_user_response"
       /\ StripLen(last_step'.answer) >= 3
       /\ last_step'.extraction = "none")
     => /\ "latest_response" \in DOMAIN context'.gathered_info
        /\ context'.gathered_info["latest_response"] = last_step'.answer]_vars

\* C25: when the response of the question-generation agent parses to the
\* empty mapping, _ask_intelligent_questions falls back to
\* _ask_basic_questions, so the needs_clarification result it returns never
\* carries an empty question list.
C25_FallbackOnParseFailure ==
  [][(/\ last_step'.op = "_ask_intelligent_questions"
       /\ last_step'.extraction = "none")
     => /\ result'.status = "needs_clarification"
        /\ result'.questions = BasicQuestions(context')
        /\ result'.questions # << >>]_vars

\* C26: when the dispatcher's response is text without JSON (such as the
\* in-band error string) or JSON that is not an object, coordinate goes on
\* with an empty dispatch record and runs Phases 2 to 4; it neither raises
\* nor returns needs_clarification.
C26_ParseFailureContinues ==
  (/\ cpc # "start"
   /\ \/ dispatch_result = << "txt" >>
      \/ JsonLoads(dispatch_result) \in {"nonobject", "recursion"})
  => /\ dispatch_info = NoDispatchInfo
     /\ coord_result # "needs_clarification"
     /\ ~(cpc = "raised" /\ invoked = << "dispatcher" >>)
     /\ cpc = "returned" => invoked = ExpectedOrder

\* C27: every run of coordinate that passes dispatch launches the analyst
\* task; the researcher task is launched exactly when a code directory or
\* input files were supplied; the code-analysis input of the writer is the
\* fixed placeholder exactly when the researcher was not launched, and
\* otherwise what the researcher returned, unchanged, also when that is
\* empty or an error string.
C27_ResearchInputs ==
  /\ cpc \in {"gather", "write", "security", "edit", "save"} =>
       Invoked("analyst")
  /\ coord_result = "document" => Invoked("analyst")
  /\ Invoked("analyst") => (Invoked("researcher") <=> has_code)
  /\ ~Invoked("analyst") => ~Invoked("researcher")
  /\ Invoked("writer") =>
       /\ (writer_prompt.code_analysis = NoCodePlaceholder)
            <=> ~Invoked("researcher")
       /\ Invoked("researcher") =>
            writer_prompt.code_analysis = task_result["researcher"]
       /\ writer_prompt.requirements = task_result["analyst"]

\* the researcher ran and returned the error string, which the writer got
C27_Witness ==
  /\ Invoked("writer")
  /\ Invoked("researcher")
  /\ task_result["researcher"].kind = "error"
  /\ writer_prompt.code_analysis.kind = "error"
  /\ writer_prompt.code_analysis.by = "researcher"

\* the reference formula: a fact counts, in the numerator and in the
\* denominator of info_score, when its stripped length is at least 5 and it
\* is not none / n/a / unknown; more than 50 characters add 0.3 to the
\* numerator
ReferenceConfidence(c) ==
  LET counted == { k \in DOMAIN c.gathered_info :
                     /\ StripLen(c.gathered_info[k]) >= 5
                     /\ ~LowerIsFiller(c.gathered_info[k]) }
      detailed == { k \in counted : StripLen(c.gathered_info[k]) > 50 }
      den == Max(Cardinality(counted), 1)
      info == 70 * Cardinality(counted) + 21 * Cardinality(detailed)
  IN Clamp01(Rat(info + den * (ConversationBonus(c) - RoundPenalty(c)
                               - SpamPenalty(c)), den))

\* values of stripped length 1 to 4
BriefValues == { S_OK, S_YES, Str(4, 0, FALSE, FALSE) }

\* C28: _calculate_confidence equals clamp(0, 1, 0.7 * info_score +
\* conversation_bonus - round_penalty - spam_penalty) where only facts of
\* stripped length >= 5 that are not none / n/a / unknown count in the
\* numerator and the denominator of info_score; adding a fact whose value
\* has stripped length below 5 leaves the score unchanged.
C28_ConfidenceMatchesReference ==
  /\ LET a == CalculateConfidence(context)
         b == ReferenceConfidence(context)
     IN a.num * b.den = b.num * a.den
  /\ \A k \in FactKeys \ DOMAIN context.gathered_info, v \in BriefValues :
       LET a == CalculateConfidence(context)
           b == CalculateConfidence([context EXCEPT !.gathered_info =
                                       UpdateInfo(@, k, v)])
       IN a.num * b.den = b.num * a.den

\* the number of the five completeness checks that hold for a document
ChecksHeld(d) ==
  Cardinality({ i \in 1..5 :
     \/ i = 1 /\ d.words >= 1000
     \/ i = 2 /\ d.markers # {}
     \/ i = 3 /\ Cardinality(d.markers) >= 3
     \/ i = 4 /\ ("Requirements" \in d.markers \/ d.spec_word)
     \/ i = 5 /\ d.lines >= 20 })

\* C29: completeness_score is k/5, k being the number of the five checks
\* that hold (at least 1000 words; a structural marker; at least 3 distinct
\* markers; a mention of requirements or specification; at least 20
\* lines); whenever it is below 0.5 the confidence is low and flags holds
\* low_confidence; a 200-word document without markers gets confidence low,
\* the flag and a score below 0.5.
C29_CompletenessScore ==
  qcalls > 0 =>
    LET d == qcall.document
    IN /\ assessment.completeness = ChecksHeld(d)
       /\ 2 * assessment.completeness < 5 =>
            /\ assessment.confidence = "low"
            /\ \E i \in 1..Len(assessment.flags) :
                 assessment.flags[i] = "low_confidence"
       /\ (d.words = 200 /\ d.markers = {}) =>
            /\ 2 * assessment.completeness < 5
            /\ assessment.confidence = "low"
            /\ \E i \in 1..Len(assessment.flags) :
                 assessment.flags[i] = "low_confidence"

\* the completeness rule alone lowers a document of 700 words with one
\* heading, placeholder text and few lines
C29_Witness ==
  /\ qcalls > 0
  /\ qcall.document.words = 700
  /\ qcall.document.markers = { "#" }
  /\ ~qcall.document.has_error
  /\ qcall.document.has_placeholder
  /\ assessment.completeness = 1
  /\ assessment.confidence = "low"
  /\ assessment.flags = << "low_confidence" >>

\* C30: in the self-critique loop, whenever the regenerated result is still
\* flagged low_confidence and critique_iterations < max_critique_iterations,
\* another round is run; the loop stops early only when the regenerated
\* result no longer carries the low_confidence flag.
C30_CritiqueContinuesWhileFlagged ==
  [][(pc = "regenerate" /\ last_step'.op = "regenerate")
     => /\ (/\ generated'.flagged
             /\ context.critique_iterations
                  < context.max_critique_iterations)
           => pc' = "generate"
        /\ (/\ pc' = "done"
             /\ context.critique_iterations
                  < context.max_critique_iterations)
           => ~generated'.flagged]_vars

\* the fact categories in priority order: the keys that fill each one
GapCategories ==
  << {"application_type"}, {"document_types", "document_type"},
     {"key_features", "features"}, {"stakeholders"},
     {"technical_stack", "tech_stack"} >>

\* the categories none of whose keys is gathered, in priority order
MissingCategories(keys) ==
  SelectSeq(<< 1, 2, 3, 4, 5 >>, LAMBDA i : GapCategories[i] \cap keys = {})

\* the question asked about category i
GapQuestion(i, with_code) ==
  CASE i = 1 -> "What type of application is this?"
    [] i = 2 -> "What documentation do you need?"
    [] i = 3 -> "What are the main features?"
    [] i = 4 -> "Who are the primary users or stakeholders?"
    [] OTHER -> IF with_code THEN "Any specific technical requirements?"
                ELSE "What technologies does this use?"

GenericQuestions ==
  << "Can you provide more details?",
     "What specific aspects should be covered?",
     "Are there any particular requirements?" >>

\* C31: for every set of gathered fact keys _ask_basic_questions returns 2
\* or 3 questions: the questions about the missing categories in the order
\* application type, document types, key features, stakeholders, technical
\* stack, at most 3 of them, and the 3 generic questions exactly when fewer
\* than 2 categories are missing.
C31_BasicQuestionsFillGaps ==
  last_step.op = "_ask_basic_questions" =>
    LET missing == MissingCategories(DOMAIN context.gathered_info)
        with_code == context.code_directory \/ context.input_files
        asked == context.last_questions
    IN /\ Len(asked) \in 2..3
       /\ result.questions = asked
       /\ (asked = GenericQuestions) <=> (Len(missing) < 2)
       /\ Len(missing) >= 2 =>
            /\ Len(asked) = Min(Len(missing), 3)
            /\ \A i \in 1..Len(asked) :
                 asked[i] = GapQuestion(missing[i], with_code)

\* only the technical stack is missing and the generic questions are asked
C31_Witness ==
  /\ last_step.op = "_ask_basic_questions"
  /\ MissingCategories(DOMAIN context.gathered_info) = << 5 >>
  /\ context.last_questions = GenericQuestions

\* C32: PROCEED is terminal: once _proceed_with_generation has called
\* generate_documentation_async, the pipeline run hands back a document and
\* no new clarification conversation is started inside that call.
C32_NoClarificationInsideGeneration ==
  gpc # "clarifying"

\* C33: the interactive loop of generate_documentation_async eventually
\* leaves needs_clarification, whatever lines the user types, a user who
\* only submits empty lines included.
C33_LoopLeavesClarification ==
  <>(pc \in { "generate", "critique", "regenerate", "done" })

ReturnedWorkflow ==
  << "Dispatcher", "Analyst", "Researcher", "Writer", "Security Reviewer",
     "Editor" >>

\* the agent a workflow entry names
PhaseAgent(name) ==
  CASE name = "Dispatcher" -> "dispatcher"
    [] name = "Analyst" -> "analyst"
    [] name = "Researcher" -> "researcher"
    [] name = "Writer" -> "writer"
    [] name = "Security Reviewer" -> "security_reviewer"
    [] OTHER -> "editor"

\* C35: the workflow list of a completed run is the ordered list of the
\* phases that were executed; it names the researcher only when the
\* researcher was invoked.
C35_WorkflowListsExecutedPhases ==
  coord_result = "document" =>
    /\ Len(ReturnedWorkflow) = Len(invoked)
    /\ \A i \in 1..Len(ReturnedWorkflow) :
         i <= Len(invoked) /\ PhaseAgent(ReturnedWorkflow[i]) = invoked[i]

\* C36: every string value stored in a workflow_log entry has at most
\* _max_log_size (1000) characters.
C36_LogValuesBounded ==
  \A i \in 1..Len(workflow_log) :
    \A k \in DOMAIN workflow_log[i].data :
      workflow_log[i].data[k].is_str =>
        workflow_log[i].data[k].len <= DefaultMaxLogSize

\* the sequence s holds x
Holds(s, x) == \E i \in 1..Len(s) : s[i] = x

\* C37: every failure string execute_async returns (SDK unavailable, agent
\* not registered, exception of the run call), given to
\* _assess_document_quality as the document, matches the error-indicator rule:
\* that rule adds the issue 'Document contains error messages' and the
\* low_confidence flag.
C37_FailureStringsMatchErrorRule ==
  (apc = "ended" /\ ~agent_out.raised /\ agent_out.text.kind = "error") =>
    LET d == OneLineDocument(FailureIndicators(agent, run_outcome))
        a == ErrorRule(NewAssessment(d), d)
    IN /\ Holds(a.issues, "error_messages")
       /\ Holds(a.flags, "low_confidence")

\* C38: in every result of _assess_document_quality, flags contains
\* low_confidence if and only if confidence is low: no document gets
\* confidence medium or high while it carries the flag.
C38_FlagIffLowConfidence ==
  qcalls > 0 =>
    (Holds(assessment.flags, "low_confidence")
       <=> assessment.confidence = "low")

\* C39: whenever the engine waits for a user answer (the last result had
\* status needs_clarification), empty_response_count is below
\* max_empty_responses and clarification_round is at most
\* max_clarification_rounds; no question batch is issued from a state in
\* which empty_response_count has reached the cap.
C39_WaitingWithinCaps ==
  /\ [](pc = "waiting" =>
          /\ result.status = "needs_clarification"
          /\ context.empty_response_count < context.max_empty_responses
          /\ context.clarification_round <= context.max_clarification_rounds)
  /\ [][last_step'.op = "_ask_intelligent_questions" =>
          /\ ~TooManyEmptyResponses(context)
          /\ ~TooManyEmptyResponses(context')]_vars

\* the engine waits in its last round, one unhelpful answer below the cap
C39_Witness ==
  /\ pc = "waiting"
  /\ last_step.op = "_ask_intelligent_questions"
  /\ context.empty_response_count = context.max_empty_responses - 1
  /\ context.clarification_round = context.max_clarification_rounds

====
